---- MODULE Spec2Model ----
(***************************************************************************)
(* A model of the `size` crate (neosmart/prettysize-rs): the unit          *)
(* catalog, the magnitude classifier, the formatter and the parser.        *)
(*                                                                         *)
(* The crate computes with i64, u64 and f64.  None of them fits the        *)
(* integers of the model checker, so the first sections build them:        *)
(* naturals of any width as little-endian sequences of 15-bit limbs, and   *)
(* IEEE-754 binary64 values on top of them.                                *)
(***************************************************************************)
EXTENDS Integers, Sequences, FiniteSets, TLC

(***************************************************************************)
(* Wide naturals.  <<>> is zero; the highest limb is never zero.           *)
(***************************************************************************)
R == 2^15

\* Let(v, F) is F(v), with v computed first: it names a value that is used
\* more than once
Let(v, F(_)) == CASE v = v -> F(v)

Pow2(n) == 2^n

Max2(a, b) == IF a >= b THEN a ELSE b

Canon(a) ==
    LET nz == {i \in 1..Len(a) : a[i] # 0}
    IN  IF nz = {} THEN <<>>
        ELSE SubSeq(a, 1, CHOOSE i \in nz : \A j \in nz : j <= i)

\* a TLC-sized natural (below 2^31) as a wide natural
Wide(n) == Canon(<<n % R, (n \div R) % R, n \div (R * R)>>)

Zeros(n) == [i \in 1..n |-> 0]

Cmp(a, b) ==
    IF Len(a) # Len(b) THEN (IF Len(a) < Len(b) THEN -1 ELSE 1)
    ELSE LET d == {i \in 1..Len(a) : a[i] # b[i]}
         IN  IF d = {} THEN 0
             ELSE LET t == CHOOSE i \in d : \A j \in d : j <= i
                  IN  IF a[t] < b[t] THEN -1 ELSE 1

Lt(a, b) == Cmp(a, b) < 0
Le(a, b) == Cmp(a, b) <= 0

RECURSIVE AddC(_, _, _, _, _)
AddC(a, b, i, c, acc) ==
    IF i > Len(a) /\ i > Len(b)
    THEN (IF c = 0 THEN acc ELSE Append(acc, c))
    ELSE LET t == (IF i <= Len(a) THEN a[i] ELSE 0)
                  + (IF i <= Len(b) THEN b[i] ELSE 0) + c
             n == Append(acc, t % R)
         IN  IF Len(n) > 0 THEN AddC(a, b, i + 1, t \div R, n) ELSE acc

Add(a, b) == AddC(a, b, 1, 0, <<>>)

\* a - b, for a >= b
RECURSIVE SubC(_, _, _, _, _)
SubC(a, b, i, c, acc) ==
    IF i > Len(a) THEN Canon(acc)
    ELSE LET t == a[i] - (IF i <= Len(b) THEN b[i] ELSE 0) - c
             n == Append(acc, IF t < 0 THEN t + R ELSE t)
         IN  IF Len(n) > 0 THEN SubC(a, b, i + 1, IF t < 0 THEN 1 ELSE 0, n) ELSE acc

Sub(a, b) == SubC(a, b, 1, 0, <<>>)

\* a * k for a small k (0 <= k <= R)
RECURSIVE MulSC(_, _, _, _, _)
MulSC(a, k, i, c, acc) ==
    IF i > Len(a) THEN (IF c = 0 THEN acc ELSE Append(acc, c))
    ELSE LET t == a[i] * k + c
             n == Append(acc, t % R)
         IN  IF Len(n) > 0 THEN MulSC(a, k, i + 1, t \div R, n) ELSE acc

MulS(a, k) == IF k = 0 THEN <<>> ELSE MulSC(a, k, 1, 0, <<>>)

RECURSIVE MulC(_, _, _, _)
MulC(a, b, i, acc) ==
    IF i > Len(b) THEN acc
    ELSE LET n == IF b[i] = 0 THEN acc
                  ELSE Add(acc, Zeros(i - 1) \o MulS(a, b[i]))
         IN  IF Len(n) >= 0 THEN MulC(a, b, i + 1, n) ELSE acc

Mul(a, b) == IF a = <<>> \/ b = <<>> THEN <<>> ELSE MulC(a, b, 1, <<>>)

\* a divided by a small d (0 < d <= R): quotient q and remainder r
RECURSIVE DivSC(_, _, _, _, _)
DivSC(a, d, i, r, acc) ==
    IF i = 0 THEN [q |-> Canon(acc), r |-> r]
    ELSE LET t == r * R + a[i]
             n == <<t \div d>> \o acc
         IN  IF Len(n) > 0 THEN DivSC(a, d, i - 1, t % d, n)
             ELSE [q |-> acc, r |-> r]

DivS(a, d) == DivSC(a, d, Len(a), 0, <<>>)

BitLen(a) ==
    IF a = <<>> THEN 0
    ELSE (Len(a) - 1) * 15
         + (CHOOSE b \in 1..15 : Pow2(b - 1) <= a[Len(a)] /\ a[Len(a)] < Pow2(b))

IsOdd(a) == a # <<>> /\ a[1] % 2 = 1

Shl(a, n) ==
    IF a = <<>> THEN <<>>
    ELSE Zeros(n \div 15) \o MulS(a, Pow2(n % 15))

\* a shifted right by n bits: the quotient q, and whether a one was shifted out
Shr(a, n) ==
    LET w    == n \div 15
        lost == \E i \in 1..Len(a) : i <= w /\ a[i] # 0
        rest == IF w >= Len(a) THEN <<>> ELSE SubSeq(a, w + 1, Len(a))
    IN  Let(DivS(rest, Pow2(n % 15)), LAMBDA d :
            [q |-> d.q, sticky |-> lost \/ d.r # 0])

Min2(a, b) == IF a <= b THEN a ELSE b

\* One digit of the long division: the largest g with g * d <= rem, where
\* rem < d * R and the highest limb of d is at least R / 2.
QDigit(rem, d) ==
    LET n == Len(d)
        t == IF Len(rem) < n THEN 0
             ELSE IF Len(rem) = n THEN rem[n]
             ELSE rem[n + 1] * R + rem[n]
    IN  Let(Min2(R - 1, t \div d[n]), LAMBDA g0 :
        Let(IF Lt(rem, MulS(d, g0)) THEN g0 - 1 ELSE g0, LAMBDA g1 :
            IF Lt(rem, MulS(d, g1)) THEN g1 - 1 ELSE g1))

RECURSIVE DivLimbs(_, _, _, _, _)
DivLimbs(n, d, i, rem, q) ==
    IF i = 0 THEN [q |-> Canon(q), r |-> rem]
    ELSE LET r1 == Canon(<<n[i]>> \o rem)
             g  == QDigit(r1, d)
             r2 == Sub(r1, MulS(d, g))
             q2 == <<g>> \o q
         IN  IF Len(r2) + Len(q2) > 0
             THEN DivLimbs(n, d, i - 1, r2, q2)
             ELSE [q |-> q, r |-> rem]

\* floor(n / d) and n mod d for wide n and wide d > 0 (Knuth's algorithm D:
\* both are scaled so that the highest limb of d has its top bit set)
DivMod(n, d) ==
    Let(15 * Len(d) - BitLen(d), LAMBDA sh :
    Let(Shl(n, sh), LAMBDA ns :
    Let(DivLimbs(ns, Shl(d, sh), Len(ns), <<>>, <<>>), LAMBDA r :
        [q |-> r.q, r |-> Shr(r.r, sh).q])))

\* k^n for a small k, by squaring
RECURSIVE PowS(_, _)
PowS(k, n) ==
    IF n = 0 THEN <<1>>
    ELSE Let(PowS(k, n \div 2), LAMBDA h :
         Let(Mul(h, h), LAMBDA h2 : IF n % 2 = 0 THEN h2 ELSE MulS(h2, k)))

\* the decimal digits of a wide natural, most significant first (<<0>> for zero)
RECURSIVE DecDigits(_)
DecDigits(a) ==
    IF a = <<>> THEN <<0>>
    ELSE Let(DivS(a, 10), LAMBDA d :
             IF d.q = <<>> THEN <<d.r>> ELSE Append(DecDigits(d.q), d.r))

\* the wide natural written by a sequence of decimal digits
RECURSIVE FromDigits(_, _, _)
FromDigits(ds, i, acc) ==
    IF i > Len(ds) THEN acc
    ELSE LET a == Add(MulS(acc, 10), Wide(ds[i]))
         IN  IF Len(a) >= 0 THEN FromDigits(ds, i + 1, a) ELSE acc

Dec(ds) == FromDigits(ds, 1, <<>>)

(***************************************************************************)
(* i64 and u64.  An i64 is a sign and a magnitude; a u64 is a wide         *)
(* natural below 2^64.                                                     *)
(***************************************************************************)
I64_MAX_MAG == Sub(Shl(<<1>>, 63), <<1>>)
I64_MIN_MAG == Shl(<<1>>, 63)
U64_MAX     == Sub(Shl(<<1>>, 64), <<1>>)

I64(neg, mag) == [neg |-> neg /\ mag # <<>>, mag |-> mag]
I64_MAX == I64(FALSE, I64_MAX_MAG)
I64_MIN == I64(TRUE, I64_MIN_MAG)
Int64(n) == I64(n < 0, Wide(IF n < 0 THEN -n ELSE n))
NegI64(x) == I64(~x.neg, x.mag)

(***************************************************************************)
(* f64: IEEE-754 binary64, round to nearest, ties to even.  A finite       *)
(* value is (-1)^neg * m * 2^e with m below 2^53, kept with m at 53 bits   *)
(* (or e at the least exponent) so that equal values are equal records.    *)
(***************************************************************************)
F64_EMIN == 0 - 1074
F64_NAN == [k |-> "nan", neg |-> FALSE, m |-> <<>>, e |-> 0]
F64_INF(neg) == [k |-> "inf", neg |-> neg, m |-> <<>>, e |-> 0]
F64_ZERO(neg) == [k |-> "fin", neg |-> neg, m |-> <<>>, e |-> 0]

\* The f64 nearest to (n + f) * 2^e, where 0 <= f < 1 and sticky says f > 0.
\* With sticky, n must have at least 55 bits.
RoundBits(neg, n, e, sticky) ==
    IF n = <<>> THEN F64_ZERO(neg)
    ELSE
    Let(BitLen(n), LAMBDA bl :
    Let(Max2(bl - 53, F64_EMIN - e), LAMBDA sh :
        IF sh <= 0
        THEN (IF bl + e > 1024 THEN F64_INF(neg)
              ELSE Let(Min2(53 - bl, e - F64_EMIN), LAMBDA c :
                       [k |-> "fin", neg |-> neg, m |-> Shl(n, c), e |-> e - c]))
        ELSE Let(Shr(n, sh - 1), LAMBDA s :
             Let(Shr(s.q, 1).q, LAMBDA m0 :
             Let(IF IsOdd(s.q) /\ (s.sticky \/ sticky \/ IsOdd(m0))
                 THEN Add(m0, <<1>>) ELSE m0, LAMBDA m1 :
             Let(BitLen(m1) > 53, LAMBDA ov :
             Let(IF ov THEN Shr(m1, 1).q ELSE m1, LAMBDA m2 :
             Let(IF ov THEN e + sh + 1 ELSE e + sh, LAMBDA e2 :
                 IF m2 = <<>> THEN F64_ZERO(neg)
                 ELSE IF BitLen(m2) + e2 > 1024 THEN F64_INF(neg)
                 ELSE [k |-> "fin", neg |-> neg, m |-> m2, e |-> e2]))))))))

\* `x as f64` for an unsigned integer
U64ToF64(n) == RoundBits(FALSE, n, 0, FALSE)
\* `x as f64` for an i64
I64ToF64(x) == RoundBits(x.neg, x.mag, 0, FALSE)

F64IsZero(x) == x.k = "fin" /\ x.m = <<>>

\* x * y
F64Mul(x, y) ==
    IF x.k = "nan" \/ y.k = "nan" THEN F64_NAN
    ELSE IF (x.k = "inf" /\ F64IsZero(y)) \/ (y.k = "inf" /\ F64IsZero(x)) THEN F64_NAN
    ELSE IF x.k = "inf" \/ y.k = "inf" THEN F64_INF(x.neg # y.neg)
    ELSE RoundBits(x.neg # y.neg, Mul(x.m, y.m), x.e + y.e, FALSE)

\* x / y
F64Div(x, y) ==
    IF x.k = "nan" \/ y.k = "nan" THEN F64_NAN
    ELSE IF x.k = "inf" THEN (IF y.k = "inf" THEN F64_NAN ELSE F64_INF(x.neg # y.neg))
    ELSE IF y.k = "inf" THEN F64_ZERO(x.neg # y.neg)
    ELSE IF F64IsZero(y) THEN (IF F64IsZero(x) THEN F64_NAN ELSE F64_INF(x.neg # y.neg))
    ELSE IF F64IsZero(x) THEN F64_ZERO(x.neg # y.neg)
    ELSE Let(Max2(0, 56 + BitLen(y.m) - BitLen(x.m)), LAMBDA s :
         Let(DivMod(Shl(x.m, s), y.m), LAMBDA qr :
             RoundBits(x.neg # y.neg, qr.q, x.e - y.e - s, qr.r # <<>>)))

\* `x as i64`: truncation toward zero, saturating; NaN gives 0
F64ToI64(x) ==
    IF x.k = "nan" THEN I64(FALSE, <<>>)
    ELSE IF x.k = "inf" THEN (IF x.neg THEN I64_MIN ELSE I64_MAX)
    ELSE IF x.m = <<>> THEN I64(FALSE, <<>>)
    ELSE IF BitLen(x.m) + x.e > 63 THEN (IF x.neg THEN I64_MIN ELSE I64_MAX)
    ELSE I64(x.neg, IF x.e >= 0 THEN Shl(x.m, x.e) ELSE Shr(x.m, 0 - x.e).q)

\* The f64 nearest to (-1)^neg * m * 10^x, as str::parse::<f64> computes it
\* from the digits m and the decimal exponent x of a literal.
DecToF64(neg, m, x) ==
    IF m = <<>> THEN F64_ZERO(neg)
    ELSE IF x >= 0
    THEN (IF x > 310 THEN F64_INF(neg)
          ELSE RoundBits(neg, Mul(m, PowS(10, x)), 0, FALSE))
    ELSE IF Len(DecDigits(m)) + x < 0 - 330 THEN F64_ZERO(neg)
    ELSE Let(PowS(10, 0 - x), LAMBDA d :
         Let(Max2(0, 56 + BitLen(d) - BitLen(m)), LAMBDA s :
         Let(DivMod(Shl(m, s), d), LAMBDA qr :
             RoundBits(neg, qr.q, 0 - s, qr.r # <<>>))))

\* A faulty `{:.d}`: the digits beyond the d-th are cut off.
F64Scaled_trunc(x, d) ==
    Let(Mul(x.m, PowS(10, d)), LAMBDA v :
        IF x.e >= 0 THEN Shl(v, x.e) ELSE Shr(v, 0 - x.e).q)

\* x * 10^d rounded to the nearest integer, ties to even: the digits that
\* `{:.d}` prints for a finite x
F64Scaled(x, d) ==
    Let(Mul(x.m, PowS(10, d)), LAMBDA v :
        IF x.e >= 0 THEN Shl(v, x.e)
        ELSE Let(Shr(v, 0 - x.e - 1), LAMBDA s :
             Let(Shr(s.q, 1).q, LAMBDA m0 :
                 IF IsOdd(s.q) /\ (s.sticky \/ IsOdd(m0))
                 THEN Add(m0, <<1>>) ELSE m0)))

(***************************************************************************)
(* Text.  A string is a TLA+ string, a character a string of length 1.     *)
(***************************************************************************)
Ch(s, i) == SubSeq(s, i, i)
Chars(s) == {Ch(s, i) : i \in 1..Len(s)}

DIGITS == "0123456789"
LOWER  == "abcdefghijklmnopqrstuvwxyz"
UPPER  == "ABCDEFGHIJKLMNOPQRSTUVWXYZ"

IndexIn(s, c) == CHOOSE i \in 1..Len(s) : Ch(s, i) = c

RECURSIVE DigitStr(_)
DigitStr(ds) == IF ds = <<>> THEN "" ELSE Ch(DIGITS, Head(ds) + 1) \o DigitStr(Tail(ds))

\* `{}` of an unsigned integer
FmtInt(n) == DigitStr(DecDigits(n))

\* `{:.d}` of a finite f64 that is not negative
FmtFixed(x, d) ==
    Let(DecDigits(F64Scaled(x, d)), LAMBDA ds :
    Let(IF Len(ds) < d + 1 THEN Zeros(d + 1 - Len(ds)) \o ds ELSE ds, LAMBDA pad :
        IF d = 0 THEN DigitStr(pad)
        ELSE DigitStr(SubSeq(pad, 1, Len(pad) - d)) \o "."
             \o DigitStr(SubSeq(pad, Len(pad) - d + 1, Len(pad)))))

(***************************************************************************)
(* consts (lib.rs)                                                         *)
(***************************************************************************)
BYTE     == Wide(1)
KILOBYTE == MulS(BYTE, 1000)
MEGABYTE == MulS(KILOBYTE, 1000)
GIGABYTE == MulS(MEGABYTE, 1000)
TERABYTE == MulS(GIGABYTE, 1000)
PETABYTE == MulS(TERABYTE, 1000)
EXABYTE  == MulS(PETABYTE, 1000)

B  == BYTE
KB == KILOBYTE
MB == MEGABYTE
GB == GIGABYTE
TB == TERABYTE
PB == PETABYTE
EB == EXABYTE

KIBIBYTE == Shl(Wide(1), 10)
MEBIBYTE == Shl(Wide(1), 20)
GIBIBYTE == Shl(Wide(1), 30)
TEBIBYTE == Shl(Wide(1), 40)
PEBIBYTE == Shl(Wide(1), 50)
EXBIBYTE == Shl(Wide(1), 60)

KiB == KIBIBYTE
MiB == MEBIBYTE
GiB == GIBIBYTE
TiB == TEBIBYTE
PiB == PEBIBYTE
EiB == EXBIBYTE

(***************************************************************************)
(* fmt.rs: Base, Unit, Style                                               *)
(***************************************************************************)
Base == {"Base2", "Base10"}

Unit == {"Byte", "Kibibyte", "Kilobyte", "Mebibyte", "Megabyte", "Gibibyte",
         "Gigabyte", "Tebibyte", "Terabyte", "Pebibyte", "Petabyte",
         "Exbibyte", "Exabyte"}

Style == {"Default", "Abbreviated", "AbbreviatedLowercase", "Full", "FullLowercase"}

DEFAULT_BASE  == "Base2"
DEFAULT_STYLE == "Default"
DEFAULT_SCALE == "None"

Unit_text(self) ==
    CASE self = "Byte"     -> <<"byte", "Byte", "b", "B">>
      [] self = "Kilobyte" -> <<"kilobyte", "Kilobyte", "kb", "KB">>
      [] self = "Megabyte" -> <<"megabyte", "Megabyte", "mb", "MB">>
      [] self = "Gigabyte" -> <<"gigabyte", "Gigabyte", "gb", "GB">>
      [] self = "Terabyte" -> <<"terabyte", "Terabyte", "tb", "TB">>
      [] self = "Petabyte" -> <<"petabyte", "Petabyte", "pb", "PB">>
      [] self = "Exabyte"  -> <<"exabyte", "Exabyte", "eb", "EB">>
      [] self = "Kibibyte" -> <<"kibibyte", "Kibibyte", "kib", "KiB">>
      [] self = "Mebibyte" -> <<"mebibyte", "Mebibyte", "mib", "MiB">>
      [] self = "Gibibyte" -> <<"gibibyte", "Gibibyte", "gib", "GiB">>
      [] self = "Pebibyte" -> <<"pebibyte", "Pebibyte", "pib", "PiB">>
      [] self = "Tebibyte" -> <<"tebibyte", "Tebibyte", "tib", "TiB">>
      [] self = "Exbibyte" -> <<"exbibyte", "Exbibyte", "eib", "EiB">>

\* A faulty Unit::format: a magnitude of 0 is spelled in the singular too
\* (`0 | 1` in place of `1`).
Unit_format_arms_le1(self, bytes, style) ==
    CASE style = "FullLowercase" /\ Len(bytes) = 0 -> " " \o Unit_text(self)[1]
      [] style = "Full" /\ Len(bytes) = 0 -> " " \o Unit_text(self)[2]
      [] style = "FullLowercase" /\ bytes = <<1>> -> " " \o Unit_text(self)[1]
      [] style = "Full" /\ bytes = <<1>> -> " " \o Unit_text(self)[2]
      [] style = "FullLowercase" /\ Len(bytes) > 0 /\ bytes # <<1>> ->
            " " \o Unit_text(self)[1] \o "s"
      [] style = "Full" /\ Len(bytes) > 0 /\ bytes # <<1>> ->
            " " \o Unit_text(self)[2] \o "s"
      [] style = "AbbreviatedLowercase" -> " " \o Unit_text(self)[3]
      [] style = "Abbreviated" -> " " \o Unit_text(self)[4]

\* Unit::format, the arms for the four explicit styles: the text written
\* after the number.  `bytes` is the whole magnitude in bytes that inner_fmt
\* hands over, not the count of units; only a magnitude of exactly 1 is
\* spelled in the singular.
Unit_format_arms(self, bytes, style) ==
    CASE style = "FullLowercase" /\ bytes = <<1>> -> " " \o Unit_text(self)[1]
      [] style = "Full" /\ bytes = <<1>> -> " " \o Unit_text(self)[2]
      [] style = "AbbreviatedLowercase" /\ bytes = <<1>> -> " " \o Unit_text(self)[3]
      [] style = "Abbreviated" /\ bytes = <<1>> -> " " \o Unit_text(self)[4]
      [] style = "FullLowercase" /\ bytes # <<1>> -> " " \o Unit_text(self)[1] \o "s"
      [] style = "Full" /\ bytes # <<1>> -> " " \o Unit_text(self)[2] \o "s"
      [] style = "AbbreviatedLowercase" /\ bytes # <<1>> -> " " \o Unit_text(self)[3]
      [] style = "Abbreviated" /\ bytes # <<1>> -> " " \o Unit_text(self)[4]

\* A faulty Unit::format: Style::Default is Abbreviated for every unit.
Unit_format_abbr(self, bytes, style) ==
    IF style = "Default" THEN Unit_format_arms(self, bytes, "Abbreviated")
    ELSE Unit_format_arms(self, bytes, style)

\* Unit::format: Style::Default calls format again with FullLowercase for
\* Unit::Byte and with Abbreviated for every other unit
Unit_format(self, bytes, style) ==
    IF style = "Default"
    THEN (IF self = "Byte" THEN Unit_format_arms(self, bytes, "FullLowercase")
          ELSE Unit_format_arms(self, bytes, "Abbreviated"))
    ELSE Unit_format_arms(self, bytes, style)

(***************************************************************************)
(* fmt.rs: FormatRule and the two rule tables.  A rule's formatter is      *)
(* given by the divisor and the default digit count of its write!: the     *)
(* byte-level rule prints the integer itself.                              *)
(***************************************************************************)
\* A faulty rule: its formatter prints no decimal digits.
FormatRule_integer(less_than, div, digits, unit) ==
    [less_than |-> less_than, div |-> div, digits |-> 0, unit |-> unit]

FormatRule(less_than, div, digits, unit) ==
    [less_than |-> less_than, div |-> div, digits |-> digits, unit |-> unit]

\* A faulty formatter: every rule prints two decimal digits.
Rule_formatter_two(rule, bytes, scale) ==
    IF rule.unit = "Byte" THEN FmtInt(bytes)
    ELSE Let(F64Div(U64ToF64(bytes), I64ToF64(I64(FALSE, rule.div))), LAMBDA x :
             FmtFixed(x, IF scale = "None" THEN 2 ELSE scale))

\* a rule's formatter closure, applied to (bytes, scale)
Rule_formatter(rule, bytes, scale) ==
    IF rule.unit = "Byte" THEN FmtInt(bytes)
    ELSE Let(F64Div(U64ToF64(bytes), I64ToF64(I64(FALSE, rule.div))), LAMBDA x :
             FmtFixed(x, IF scale = "None" THEN rule.digits ELSE scale))

BASE10_RULES == <<
    FormatRule(KILOBYTE,            BYTE,     0, "Byte"),
    FormatRule(MulS(KILOBYTE, 10),  KILOBYTE, 2, "Kilobyte"),
    FormatRule(MulS(KILOBYTE, 100), KILOBYTE, 1, "Kilobyte"),
    FormatRule(MEGABYTE,            KILOBYTE, 0, "Kilobyte"),
    FormatRule(MulS(MEGABYTE, 10),  MEGABYTE, 2, "Megabyte"),
    FormatRule(MulS(MEGABYTE, 100), MEGABYTE, 1, "Megabyte"),
    FormatRule(GIGABYTE,            MEGABYTE, 0, "Megabyte"),
    FormatRule(MulS(GIGABYTE, 10),  GIGABYTE, 2, "Gigabyte"),
    FormatRule(MulS(GIGABYTE, 100), GIGABYTE, 1, "Gigabyte"),
    FormatRule(TERABYTE,            GIGABYTE, 0, "Gigabyte"),
    FormatRule(MulS(TERABYTE, 10),  TERABYTE, 2, "Terabyte"),
    FormatRule(MulS(TERABYTE, 100), TERABYTE, 1, "Terabyte"),
    FormatRule(PETABYTE,            TERABYTE, 0, "Terabyte"),
    FormatRule(MulS(PETABYTE, 10),  PETABYTE, 2, "Petabyte"),
    FormatRule(MulS(PETABYTE, 100), PETABYTE, 1, "Petabyte"),
    FormatRule(EXABYTE,             PETABYTE, 0, "Petabyte"),
    FormatRule(U64_MAX,             EXABYTE,  0, "Exabyte") >>

BASE2_RULES == <<
    FormatRule(KIBIBYTE,            BYTE,     0, "Byte"),
    FormatRule(MulS(KIBIBYTE, 10),  KIBIBYTE, 2, "Kibibyte"),
    FormatRule(MulS(KIBIBYTE, 100), KIBIBYTE, 1, "Kibibyte"),
    FormatRule(MEBIBYTE,            KIBIBYTE, 0, "Kibibyte"),
    FormatRule(MulS(MEBIBYTE, 10),  MEBIBYTE, 2, "Mebibyte"),
    FormatRule(MulS(MEBIBYTE, 100), MEBIBYTE, 1, "Mebibyte"),
    FormatRule(GIBIBYTE,            MEBIBYTE, 0, "Mebibyte"),
    FormatRule(MulS(GIBIBYTE, 10),  GIBIBYTE, 2, "Gibibyte"),
    FormatRule(MulS(GIBIBYTE, 100), GIBIBYTE, 1, "Gibibyte"),
    FormatRule(TEBIBYTE,            GIBIBYTE, 0, "Gibibyte"),
    FormatRule(MulS(TEBIBYTE, 10),  TEBIBYTE, 2, "Tebibyte"),
    FormatRule(MulS(TEBIBYTE, 100), TEBIBYTE, 1, "Tebibyte"),
    FormatRule(PEBIBYTE,            TEBIBYTE, 0, "Tebibyte"),
    FormatRule(MulS(PEBIBYTE, 10),  PEBIBYTE, 2, "Pebibyte"),
    FormatRule(MulS(PEBIBYTE, 100), PEBIBYTE, 1, "Pebibyte"),
    FormatRule(EXBIBYTE,            PEBIBYTE, 0, "Pebibyte"),
    FormatRule(U64_MAX,             EXBIBYTE, 0, "Exbibyte") >>

\* A faulty table: the rules without the entry of the largest threshold.
Rules_unterminated(base) ==
    IF base = "Base2" THEN SubSeq(BASE2_RULES, 1, Len(BASE2_RULES) - 1)
    ELSE SubSeq(BASE10_RULES, 1, Len(BASE10_RULES) - 1)

\* A faulty choice of table: each base takes the rules of the other.
Rules_swapped(base) == IF base = "Base2" THEN BASE10_RULES ELSE BASE2_RULES

Rules(base) == IF base = "Base2" THEN BASE2_RULES ELSE BASE10_RULES

\* slice::binary_search_by_key over a rule table, keyed by less_than:
\* Ok(i) for an entry equal to the key, Err(i) for the place it would be
\* inserted at.  Indices count from 0 as in the source.
RECURSIVE BinarySearch(_, _, _, _)
BinarySearch(rules, key, lo, hi) ==
    IF lo >= hi THEN [ok |-> FALSE, index |-> lo]
    ELSE LET mid == lo + (hi - lo) \div 2
         IN  Let(Cmp(rules[mid + 1].less_than, key), LAMBDA c :
                 IF c = 0 THEN [ok |-> TRUE, index |-> mid]
                 ELSE IF c < 0 THEN BinarySearch(rules, key, mid + 1, hi)
                 ELSE BinarySearch(rules, key, lo, mid))

binary_search_by_key(rules, key) == BinarySearch(rules, key, 0, Len(rules))

\* A faulty classifier: Ok(index) takes the rule at index, not index + 1.
RuleIndex_same(base, bytes) ==
    Let(binary_search_by_key(Rules(base), bytes), LAMBDA r : r.index)

\* the index into the table that inner_fmt takes for the rule (from 0);
\* an index of Len(rules) or more is out of bounds and panics
RuleIndex(base, bytes) ==
    Let(binary_search_by_key(Rules(base), bytes),
        LAMBDA r : IF r.ok THEN r.index + 1 ELSE r.index)

\* A faulty magnitude: every negative value takes the stand-in of i64::MIN.
Magnitude_max(bytes) ==
    IF ~bytes.neg THEN bytes.mag ELSE I64_MAX_MAG

\* A faulty magnitude: i64::MIN, which has no absolute value, takes 0.
Magnitude_default(bytes) ==
    IF bytes = I64_MIN THEN <<>> ELSE bytes.mag

\* the magnitude inner_fmt formats: x for x >= 0, else |x|, with i64::MAX
\* standing in for |i64::MIN| (checked_abs returns None)
Magnitude(bytes) ==
    IF ~bytes.neg THEN bytes.mag
    ELSE IF bytes = I64_MIN THEN I64_MAX_MAG
    ELSE bytes.mag

\* SizeFormatter::inner_fmt: the text written, or a panic
inner_fmt(base, style, scale, bytes) ==
    LET sign == IF bytes.neg THEN "-" ELSE ""
    IN  Let(Magnitude(bytes), LAMBDA mag :
        Let(RuleIndex(base, mag), LAMBDA idx :
            IF idx >= Len(Rules(base)) THEN [panic |-> TRUE, text |-> sign, rule |-> idx]
            ELSE Let(Rules(base)[idx + 1], LAMBDA rule :
                     [panic |-> FALSE,
                      text  |-> sign \o Rule_formatter(rule, mag, scale)
                                     \o Unit_format(rule.unit, mag, style),
                      rule  |-> idx])))

(***************************************************************************)
(* The sizes the formatter is driven with: every value within Delta of a   *)
(* table threshold, the first MaxCount multiples of every unit, the small  *)
(* counts, the values the documentation and the tests print, both signs of *)
(* each, and the two ends of i64.                                          *)
(***************************************************************************)
Delta    == 1
MaxCount == 2
MaxSmall == 2

Multipliers == {BYTE, KILOBYTE, MEGABYTE, GIGABYTE, TERABYTE, PETABYTE, EXABYTE,
                KIBIBYTE, MEBIBYTE, GIBIBYTE, TEBIBYTE, PEBIBYTE, EXBIBYTE}

Thresholds == {Rules(b)[i].less_than : b \in Base, i \in 1..16}

Documented == {Dec(<<2, 0, 0>>), Dec(<<4, 2, 0, 0, 0>>), Dec(<<2, 0, 4, 8, 0, 0>>),
               Dec(<<1, 3, 4, 0, 2, 4, 9>>), Dec(<<4, 4, 0, 4, 0, 1, 9, 2>>),
               Dec(<<4, 0, 9, 6>>)}

\* two and a half of the largest unit of each base, and its neighbours: as
\* an f64 each of them is the value half way between two printed numbers
HalfWay ==
    {Add(h, Wide(d)) : h \in {Shl(<<5>>, 59), MulS(PETABYTE, 2500)}, d \in 0..1}
    \cup {Sub(h, <<1>>) : h \in {Shl(<<5>>, 59), MulS(PETABYTE, 2500)}}

\* byte counts whose Base10 text is a decimal that no f64 holds, and whose
\* f64 times 1000 is below the byte count
Inexact == {Dec(<<2, 0, 1, 0>>), Dec(<<4, 0, 2, 0>>), Dec(<<8, 1, 9, 0>>)}

Magnitudes ==
    {Sub(t, Wide(d)) : t \in Thresholds, d \in 0..Delta}
    \cup {Add(t, Wide(d)) : t \in Thresholds, d \in 1..Delta}
    \cup {MulS(u, c) : u \in Multipliers, c \in 1..MaxCount}
    \cup {Wide(n) : n \in 0..MaxSmall}
    \cup Documented
    \cup HalfWay
    \cup Inexact
    \cup {I64_MAX_MAG}

Sizes == {I64(neg, m) : neg \in BOOLEAN, m \in Magnitudes} \cup {I64_MIN}

(***************************************************************************)
(* State.  A SizeFormatter (size, base, style, scale), the text it last    *)
(* rendered, and the operation that ran last; the string last handed to    *)
(* the parser and what the parser made of it.                              *)
(***************************************************************************)
VARIABLES op, size, base, style, scale, out, input, parsed, arg, lhs, rhs, ret

fmtVars   == <<size, base, style, scale, out>>
parseVars == <<input, parsed>>
sizeVars  == <<arg, lhs, rhs, ret>>
vars      == <<op, size, base, style, scale, out, input, parsed, arg, lhs, rhs, ret>>

NotRendered == [state |-> "none", text |-> "", rule |-> 0 - 1]
NotParsed   == [kind |-> "none", bytes |-> "none", num_str |-> "", unit |-> ""]
\* no constructor or operator has been called, and no Size been made
NoCall   == [ctor |-> "none", value |-> "none"]
NoSize   == [neg |-> FALSE, mag |-> <<0 - 1>>]
NoReturn == [kind |-> "none", v |-> "none"]
NoSizes  == arg = NoCall /\ lhs = NoSize /\ rhs = NoSize /\ ret = NoReturn

Rendered(r) ==
    [state |-> IF r.panic THEN "panic" ELSE "ok", text |-> r.text, rule |-> r.rule]

\* Size::format(): a formatter for some size, with the defaults
InitFmt ==
    /\ op = "format"
    /\ size \in Sizes
    /\ base = DEFAULT_BASE
    /\ style = DEFAULT_STYLE
    /\ scale = DEFAULT_SCALE
    /\ out = NotRendered
    /\ input = ""
    /\ parsed = NotParsed
    /\ NoSizes

\* a formatter is at hand: it has not been consumed by a Display of the
\* Size, nor has its text been handed on
Formatting == op \in {"format", "with_base", "with_style", "to_string"}

\* SizeFormatter::with_base
with_base(b) ==
    /\ Formatting
    /\ op' = "with_base"
    /\ base' = b
    /\ out' = NotRendered
    /\ UNCHANGED <<size, style, scale>>
    /\ UNCHANGED parseVars
    /\ UNCHANGED sizeVars

\* SizeFormatter::with_style
with_style(st) ==
    /\ Formatting
    /\ op' = "with_style"
    /\ style' = st
    /\ out' = NotRendered
    /\ UNCHANGED <<size, base, scale>>
    /\ UNCHANGED parseVars
    /\ UNCHANGED sizeVars

\* <FormattableSize as Display>::fmt: render the configured formatter
FormattableSize_fmt ==
    /\ Formatting
    /\ op' = "to_string"
    /\ out' = Rendered(inner_fmt(base, style, scale, size))
    /\ UNCHANGED <<size, base, style, scale>>
    /\ UNCHANGED parseVars
    /\ UNCHANGED sizeVars

\* <Size as Display>::fmt: write!(fmt, "{}", self.format()), the rendering
\* of a formatter fresh from Size::format()
Size_Display ==
    /\ op = "format"
    /\ op' = "Display"
    /\ out' = Rendered(inner_fmt(DEFAULT_BASE, DEFAULT_STYLE, DEFAULT_SCALE, size))
    /\ UNCHANGED <<size, base, style, scale>>
    /\ UNCHANGED parseVars
    /\ UNCHANGED sizeVars

NextFmt ==
    \/ \E b \in Base : with_base(b)
    \/ \E st \in Style : with_style(st)
    \/ FormattableSize_fmt
    \/ Size_Display

SpecFmt == InitFmt /\ [][NextFmt]_vars

(***************************************************************************)
(* from_str.rs.  The strings handed to the parser are over ASCII and the   *)
(* two characters "é" (two bytes in UTF-8) and "€" (three bytes); str      *)
(* indices are byte offsets, as in the source.                             *)
(***************************************************************************)
LETTERS    == Chars(LOWER) \cup Chars(UPPER)
\* U+00A0 NO-BREAK SPACE, a white-space character of two bytes
NBSP       == " "
\* the characters of char::is_whitespace that the inputs use
WHITESPACE == {" ", "\t", "\n", "\r", "\f", NBSP}

SetMax(S) == CHOOSE i \in S : \A j \in S : j <= i
SetMin(S) == CHOOSE i \in S : \A j \in S : i <= j

\* char::is_ascii_alphabetic
is_ascii_alphabetic(c) == c \in LETTERS

\* char::len_utf8
len_utf8(c) == IF c \in {"é", NBSP} THEN 2 ELSE IF c = "€" THEN 3 ELSE 1

\* the byte offset at which the p-th character of s starts (p = Len(s) + 1
\* gives the length of s in bytes)
ByteOffset(s, p) ==
    Cardinality({jk \in (1..(p - 1)) \X (1..3) : jk[2] <= len_utf8(Ch(s, jk[1]))})

\* str::trim_end and str::trim
trim_end(s) ==
    LET keep == {i \in 1..Len(s) : Ch(s, i) \notin WHITESPACE}
    IN  IF keep = {} THEN "" ELSE SubSeq(s, 1, SetMax(keep))

trim(s) ==
    LET keep == {i \in 1..Len(s) : Ch(s, i) \notin WHITESPACE}
    IN  IF keep = {} THEN "" ELSE SubSeq(s, SetMin(keep), SetMax(keep))

\* s.rfind(|c| !c.is_ascii_alphabetic()): the byte offset of the last
\* character that is not an ASCII letter, or None
rfind(s) ==
    LET hits == {i \in 1..Len(s) : ~is_ascii_alphabetic(Ch(s, i))}
    IN  IF hits = {} THEN [some |-> FALSE, idx |-> 0]
        ELSE [some |-> TRUE, idx |-> ByteOffset(s, SetMax(hits))]

\* str::is_char_boundary
is_char_boundary(s, idx) == \E p \in 1..(Len(s) + 1) : ByteOffset(s, p) = idx

\* str::split_at: panics unless idx is on a character boundary
split_at(s, idx) ==
    IF ~is_char_boundary(s, idx) THEN [panic |-> TRUE, head |-> "", tail |-> ""]
    ELSE LET p == CHOOSE q \in 1..(Len(s) + 1) : ByteOffset(s, q) = idx
         IN  [panic |-> FALSE, head |-> SubSeq(s, 1, p - 1),
              tail |-> SubSeq(s, p, Len(s))]

\* char::to_ascii_lowercase and str::to_lowercase (the unit is ASCII letters)
LowerChar(c) == IF c \in Chars(UPPER) THEN Ch(LOWER, IndexIn(UPPER, c)) ELSE c

\* A faulty to_lowercase: the text is left as it is.
to_lowercase_kept(s) == s

RECURSIVE to_lowercase(_)
to_lowercase(s) ==
    IF Len(s) = 0 THEN ""
    ELSE LowerChar(Ch(s, 1)) \o to_lowercase(SubSeq(s, 2, Len(s)))

\* str::trim_end_matches('s'): every trailing "s" is removed
trim_end_matches_s(s) ==
    LET keep == {i \in 1..Len(s) : Ch(s, i) # "s"}
    IN  IF keep = {} THEN "" ELSE SubSeq(s, 1, SetMax(keep))

AllDigits(s) == \A i \in 1..Len(s) : Ch(s, i) \in Chars(DIGITS)

DigitsOf(s) == [i \in 1..Len(s) |-> IndexIn(DIGITS, Ch(s, i)) - 1]

\* the digits of an exponent as a number; dec2flt stops adding digits once
\* the number has reached 0x10000
RECURSIVE ExpDigits(_, _)
ExpDigits(s, acc) ==
    IF Len(s) = 0 THEN acc
    ELSE ExpDigits(SubSeq(s, 2, Len(s)),
                   IF acc < 65536 THEN 10 * acc + IndexIn(DIGITS, Ch(s, 1)) - 1
                   ELSE acc)

\* dec2flt's parse_number on the text after the sign: digits, an optional
\* "." and digits (at least one digit in all), an optional exponent ("e" or
\* "E", an optional sign, at least one digit), and nothing else.  The
\* number read is m * 10^x.
parse_number(b) ==
    LET es   == {i \in 1..Len(b) : Ch(b, i) \in {"e", "E"}}
        mant == IF es = {} THEN b ELSE SubSeq(b, 1, SetMin(es) - 1)
        expo == IF es = {} THEN "" ELSE SubSeq(b, SetMin(es) + 1, Len(b))
        dots == {i \in 1..Len(mant) : Ch(mant, i) = "."}
        ip   == IF dots = {} THEN mant ELSE SubSeq(mant, 1, SetMin(dots) - 1)
        fp   == IF dots = {} THEN "" ELSE SubSeq(mant, SetMin(dots) + 1, Len(mant))
        sgn  == Len(expo) > 0 /\ Ch(expo, 1) \in {"+", "-"}
        edig == IF sgn THEN SubSeq(expo, 2, Len(expo)) ELSE expo
    IN  IF /\ AllDigits(ip) /\ AllDigits(fp) /\ Len(ip) + Len(fp) > 0
           /\ (es = {} \/ (Len(edig) > 0 /\ AllDigits(edig)))
        THEN [ok |-> TRUE, m |-> Dec(DigitsOf(ip \o fp)),
              x  |-> (IF sgn /\ Ch(expo, 1) = "-" THEN 0 - ExpDigits(edig, 0)
                      ELSE ExpDigits(edig, 0)) - Len(fp)]
        ELSE [ok |-> FALSE, m |-> <<>>, x |-> 0]

\* dec2flt's parse_inf_nan: "inf", "infinity" and "nan" in any case
parse_inf_nan(b, neg) ==
    Let(to_lowercase(b), LAMBDA l :
        IF l = "inf" \/ l = "infinity" THEN [ok |-> TRUE, value |-> F64_INF(neg)]
        ELSE IF l = "nan" THEN [ok |-> TRUE, value |-> F64_NAN]
        ELSE [ok |-> FALSE, value |-> F64_NAN])

\* str::parse::<f64>
parse_f64(s) ==
    IF Len(s) = 0 THEN [ok |-> FALSE, value |-> F64_NAN]
    ELSE LET neg == Ch(s, 1) = "-"
             b   == IF Ch(s, 1) \in {"+", "-"} THEN SubSeq(s, 2, Len(s)) ELSE s
         IN  IF Len(b) = 0 THEN [ok |-> FALSE, value |-> F64_NAN]
             ELSE Let(parse_number(b), LAMBDA n :
                      IF n.ok THEN [ok |-> TRUE, value |-> DecToF64(neg, n.m, n.x)]
                      ELSE parse_inf_nan(b, neg))

\* A faulty match: "kb" and "kilobyte" take the multiplier of the kibibyte.
UnitMultiplier_kib(unit) ==
    CASE unit \in {"", "b", "byte"}     -> [ok |-> TRUE, multiplier |-> B]
      [] unit \in {"kb", "kilobyte"}    -> [ok |-> TRUE, multiplier |-> KiB]
      [] unit \in {"mb", "megabyte"}    -> [ok |-> TRUE, multiplier |-> MB]
      [] unit \in {"gb", "gigabyte"}    -> [ok |-> TRUE, multiplier |-> GB]
      [] unit \in {"tb", "terabyte"}    -> [ok |-> TRUE, multiplier |-> TB]
      [] unit \in {"pb", "petabyte"}    -> [ok |-> TRUE, multiplier |-> PB]
      [] unit \in {"eb", "exabyte"}     -> [ok |-> TRUE, multiplier |-> EB]
      [] unit \in {"kib", "kibibyte"}   -> [ok |-> TRUE, multiplier |-> KiB]
      [] unit \in {"mib", "mebibyte"}   -> [ok |-> TRUE, multiplier |-> MiB]
      [] unit \in {"gib", "gibibyte"}   -> [ok |-> TRUE, multiplier |-> GiB]
      [] unit \in {"tib", "tebibyte"}   -> [ok |-> TRUE, multiplier |-> TiB]
      [] unit \in {"pib", "pebibyte"}   -> [ok |-> TRUE, multiplier |-> PiB]
      [] unit \in {"eib", "exbibyte"}   -> [ok |-> TRUE, multiplier |-> EiB]
      [] OTHER                          -> [ok |-> FALSE, multiplier |-> <<>>]

\* the match on the unit text: its multiplier, or the `_` arm
UnitMultiplier(unit) ==
    CASE unit \in {"", "b", "byte"}     -> [ok |-> TRUE, multiplier |-> B]
      [] unit \in {"kb", "kilobyte"}    -> [ok |-> TRUE, multiplier |-> KB]
      [] unit \in {"mb", "megabyte"}    -> [ok |-> TRUE, multiplier |-> MB]
      [] unit \in {"gb", "gigabyte"}    -> [ok |-> TRUE, multiplier |-> GB]
      [] unit \in {"tb", "terabyte"}    -> [ok |-> TRUE, multiplier |-> TB]
      [] unit \in {"pb", "petabyte"}    -> [ok |-> TRUE, multiplier |-> PB]
      [] unit \in {"eb", "exabyte"}     -> [ok |-> TRUE, multiplier |-> EB]
      [] unit \in {"kib", "kibibyte"}   -> [ok |-> TRUE, multiplier |-> KiB]
      [] unit \in {"mib", "mebibyte"}   -> [ok |-> TRUE, multiplier |-> MiB]
      [] unit \in {"gib", "gibibyte"}   -> [ok |-> TRUE, multiplier |-> GiB]
      [] unit \in {"tib", "tebibyte"}   -> [ok |-> TRUE, multiplier |-> TiB]
      [] unit \in {"pib", "pebibyte"}   -> [ok |-> TRUE, multiplier |-> PiB]
      [] unit \in {"eib", "exbibyte"}   -> [ok |-> TRUE, multiplier |-> EiB]
      [] OTHER                          -> [ok |-> FALSE, multiplier |-> <<>>]

\* the three ways <Size as FromStr>::from_str ends.  num_str and unit are
\* the two parts the input was split into (num_str after its trim_end).
Ok(bytes, num_str, unit) ==
    [kind |-> "Ok", bytes |-> bytes, num_str |-> num_str, unit |-> unit]
Err(num_str, unit) ==
    [kind |-> "Err", bytes |-> "ParseSizeError", num_str |-> num_str, unit |-> unit]
Panic == [kind |-> "Panic", bytes |-> "panic", num_str |-> "", unit |-> ""]

\* Size::from_bytes of an f64: the `as i64` cast
Size_from_bytes(value) == F64ToI64(value)

\* <Size as FromStr>::from_str
FromStr_from_str(str) ==
    Let(trim(str), LAMBDA s :
    Let(rfind(s), LAMBDA i :
    Let(IF i.some THEN split_at(s, i.idx + 1)
        ELSE [panic |-> FALSE, head |-> s, tail |-> ""], LAMBDA sp :
        IF sp.panic THEN Panic
        ELSE
        Let(trim_end(sp.head), LAMBDA num_str :
        Let(parse_f64(num_str), LAMBDA number :
            IF ~number.ok THEN Err(num_str, sp.tail)
            ELSE
            Let(UnitMultiplier(trim_end_matches_s(to_lowercase(sp.tail))), LAMBDA m :
                IF ~m.ok THEN Err(num_str, sp.tail)
                ELSE Ok(Size_from_bytes(F64Mul(number.value,
                                               I64ToF64(I64(FALSE, m.multiplier)))),
                        num_str, sp.tail)))))))

(***************************************************************************)
(* The strings the parser is driven with: numeric literals, well formed    *)
(* and not, followed directly or after white space by a unit; every        *)
(* recognized spelling in three letter cases with up to MaxPlural trailing *)
(* "s"; the strings of the documentation and the tests; strings with       *)
(* characters outside ASCII; and strings padded with white space.          *)
(***************************************************************************)
MaxPlural == 2

Spellings == {"b", "byte", "kb", "kilobyte", "mb", "megabyte", "gb", "gigabyte",
              "tb", "terabyte", "pb", "petabyte", "eb", "exabyte",
              "kib", "kibibyte", "mib", "mebibyte", "gib", "gibibyte",
              "tib", "tebibyte", "pib", "pebibyte", "eib", "exbibyte"}

UpperChar(c) == IF c \in Chars(LOWER) THEN Ch(UPPER, IndexIn(LOWER, c)) ELSE c

\* s in upper case (every = TRUE) or with every second letter in upper case
RECURSIVE Cased(_, _, _)
Cased(s, i, every) ==
    IF i > Len(s) THEN ""
    ELSE (IF every \/ i % 2 = 0 THEN UpperChar(Ch(s, i)) ELSE Ch(s, i))
         \o Cased(s, i + 1, every)

CaseVariants(u) == {u, Cased(u, 1, TRUE), Cased(u, 1, FALSE)}

RECURSIVE Repeat(_, _)
Repeat(c, k) == IF k = 0 THEN "" ELSE c \o Repeat(c, k - 1)

Literals == {"0", "1", "12.34", "1234", "2.01", "4.1", "0.5", ".5", "1.", "42.0",
             "-1", "-1.5", "+1", "423E-3", "0.423E3", "0.423e3", "1e3", "1e30",
             "-1e30", "9223372036854775807", "", "-", ".", "1e", "1e+", "12..34",
             "1,5", "0x10", "inf", "-inf", "nan", "NaN", "infinity",
             "1é", "é", "€1", "1€"}

InputsAnyLiteral ==
    {l \o sep \o u : l \in Literals, sep \in {"", " ", "\t"},
                     u \in {"", "b", "KB", "kib", "xb", "s", "é"}}

InputsAnyUnit ==
    {l \o sep \o c \o Repeat("s", k) :
        l \in {"12.34", "1234", "2.01"}, sep \in {"", " "},
        c \in UNION {CaseVariants(u) : u \in Spellings}, k \in 0..MaxPlural}

InputsDocumented ==
    {"12.34 KB", "12.34 kIloByte", "1234", " 1234 ", "1234B", "1234 KB", "1234KiB",
     "12.34 MB", "12.34MiB", " 1234 GB ", "1234 bytes", "1234 kilobytes",
     "1234 kibibytes", "12.34 gigabytes", "12.34   gibibytes", "Not a number",
     "1234 XB", "12..34 MB", "42.0", "42.0kib ", "0.423E3", "423E-3 mb",
     "423E-3mb", "0.423e3kb", "12.34 Kibibytes", "12.34 MegaBytes",
     "10 kb€", "1 ké", "1 é kb", "é 1", "   ", "\t1 b\n",
     "1" \o NBSP \o "KB", NBSP \o "1 KB" \o NBSP, "1 " \o NBSP \o "KB",
     "1" \o NBSP \o " KB", NBSP}

\* a number, a space, and a spelling of the unit catalog, alone or with "s"
InputsCatalog ==
    {l \o " " \o Unit_text(u)[j] \o p :
        l \in {"1", "12.34"}, u \in Unit, j \in 1..4, p \in {"", "s"}}

Inputs == InputsAnyLiteral \cup InputsAnyUnit \cup InputsDocumented \cup InputsCatalog

\* a string that is about to be parsed
InitParse ==
    /\ op = "input"
    /\ input \in Inputs
    /\ parsed = NotParsed
    /\ size = Int64(0)
    /\ base = DEFAULT_BASE
    /\ style = DEFAULT_STYLE
    /\ scale = DEFAULT_SCALE
    /\ out = NotRendered
    /\ NoSizes

\* <Size as FromStr>::from_str, as str::parse::<Size> calls it
FromStr_parse ==
    /\ op = "input"
    /\ op' = "parse"
    /\ parsed' = FromStr_from_str(input)
    /\ UNCHANGED <<input, size, base, style, scale, out>>
    /\ UNCHANGED sizeVars

\* Size::from_str: the member function, which is FromStr::from_str(s)
Size_from_str ==
    /\ op = "input"
    /\ op' = "from_str"
    /\ parsed' = FromStr_from_str(input)
    /\ UNCHANGED <<input, size, base, style, scale, out>>
    /\ UNCHANGED sizeVars

NextParse ==
    \/ FromStr_parse
    \/ Size_from_str

SpecParse == InitParse /\ [][NextParse]_vars

(***************************************************************************)
(* The round trip: the text a formatter rendered is handed to the parser.  *)
(***************************************************************************)
\* Size::from_str(&formatter.to_string())
from_str_to_string ==
    /\ op = "to_string"
    /\ out.state = "ok"
    /\ op' = "round_trip"
    /\ input' = out.text
    /\ parsed' = FromStr_from_str(out.text)
    /\ UNCHANGED fmtVars
    /\ UNCHANGED sizeVars

NextRound ==
    \/ NextFmt
    \/ from_str_to_string

SpecRound == InitFmt /\ [][NextRound]_vars

(***************************************************************************)
(* lib.rs and ops.rs: the constructors of a Size, its comparisons and its  *)
(* arithmetic, in std mode (Intermediate is f64).  A number handed to a    *)
(* constructor or an operator is an integer of some primitive type, kept   *)
(* as a sign and a magnitude, or an f64.                                   *)
(***************************************************************************)
IntNum(neg, mag) == [ty |-> "int", neg |-> neg /\ mag # <<>>, mag |-> mag, f |-> F64_ZERO(FALSE)]
FloatNum(f) == [ty |-> "f64", neg |-> FALSE, mag |-> <<>>, f |-> f]
Num(n) == IntNum(n < 0, Wide(IF n < 0 THEN 0 - n ELSE n))

\* sealed::AsIntermediate::as_: `self as Intermediate`
as_(value) ==
    IF value.ty = "f64" THEN value.f ELSE RoundBits(value.neg, value.mag, 0, FALSE)

\* A faulty constructor: the value is truncated to an integer before it is
\* multiplied.
FromUnit_truncated(value, multiplier) ==
    F64ToI64(F64Mul(I64ToF64(F64ToI64(as_(value))), I64ToF64(I64(FALSE, multiplier))))

\* the body the twelve unit constructors share:
\* (value.as_() * MULTIPLIER as Intermediate) as i64
FromUnit(value, multiplier) ==
    F64ToI64(F64Mul(as_(value), I64ToF64(I64(FALSE, multiplier))))

from_kilobytes(value) == FromUnit(value, KILOBYTE)
from_megabytes(value) == FromUnit(value, MEGABYTE)
from_gigabytes(value) == FromUnit(value, GIGABYTE)
from_terabytes(value) == FromUnit(value, TERABYTE)
from_petabytes(value) == FromUnit(value, PETABYTE)
from_exabytes(value)  == FromUnit(value, EXABYTE)
from_kibibytes(value) == FromUnit(value, KIBIBYTE)
from_mebibytes(value) == FromUnit(value, MEBIBYTE)
from_gibibytes(value) == FromUnit(value, GIBIBYTE)
from_tebibytes(value) == FromUnit(value, TEBIBYTE)
from_pebibytes(value) == FromUnit(value, PEBIBYTE)
from_exbibytes(value) == FromUnit(value, EXBIBYTE)

\* A faulty Size::Bytes: a value out of range wraps (the low 64 bits of a
\* positive integer) in place of saturating.
Size_Bytes_wrapping(t) ==
    IF t.ty = "int" /\ ~t.neg /\ ~Le(t.mag, I64_MAX_MAG)
    THEN I64(TRUE, Sub(Shl(<<1>>, 64), t.mag))
    ELSE F64ToI64(as_(t))

\* Size::Bytes, the old API: Self::from_bytes(t.as_() as i64)
Size_Bytes(t) == F64ToI64(as_(t))

\* Size::from_bytes(bytes: i64): the field is the argument
from_bytes(bytes) == I64(bytes.neg, bytes.mag)

UnitConstructors ==
    {"from_kilobytes", "from_megabytes", "from_gigabytes", "from_terabytes",
     "from_petabytes", "from_exabytes", "from_kibibytes", "from_mebibytes",
     "from_gibibytes", "from_tebibytes", "from_pebibytes", "from_exbibytes"}

Constructors == UnitConstructors \cup {"from_bytes", "Bytes"}

\* the Size a constructor makes of a value
Construct(ctor, value) ==
    CASE ctor = "from_bytes"     -> from_bytes(value)
      [] ctor = "Bytes"          -> Size_Bytes(value)
      [] ctor = "from_kilobytes" -> from_kilobytes(value)
      [] ctor = "from_megabytes" -> from_megabytes(value)
      [] ctor = "from_gigabytes" -> from_gigabytes(value)
      [] ctor = "from_terabytes" -> from_terabytes(value)
      [] ctor = "from_petabytes" -> from_petabytes(value)
      [] ctor = "from_exabytes"  -> from_exabytes(value)
      [] ctor = "from_kibibytes" -> from_kibibytes(value)
      [] ctor = "from_mebibytes" -> from_mebibytes(value)
      [] ctor = "from_gibibytes" -> from_gibibytes(value)
      [] ctor = "from_tebibytes" -> from_tebibytes(value)
      [] ctor = "from_pebibytes" -> from_pebibytes(value)
      [] ctor = "from_exbibytes" -> from_exbibytes(value)

\* i64 arithmetic.  The sum and the product of two i64 as integers, and what
\* an overflowing operation leaves: a panic where overflow checks are
\* compiled in, the low 64 bits where they are not.
IsI64(x) == IF x.neg THEN Le(x.mag, I64_MIN_MAG) ELSE Le(x.mag, I64_MAX_MAG)

IntAdd(x, y) ==
    IF x.neg = y.neg THEN I64(x.neg, Add(x.mag, y.mag))
    ELSE IF Lt(x.mag, y.mag) THEN I64(y.neg, Sub(y.mag, x.mag))
    ELSE I64(x.neg, Sub(x.mag, y.mag))

IntMul(x, y) == I64(x.neg # y.neg, Mul(x.mag, y.mag))

\* an integer reduced to the i64 with the same low 64 bits
Wrap(x) ==
    Let(DivMod(x.mag, Shl(<<1>>, 64)).r, LAMBDA low :
    Let(IF x.neg /\ low # <<>> THEN Sub(Shl(<<1>>, 64), low) ELSE low, LAMBDA u :
        IF Le(u, I64_MAX_MAG) THEN I64(FALSE, u)
        ELSE I64(TRUE, Sub(Shl(<<1>>, 64), u))))

Checks == {"overflow-checks", "no-overflow-checks"}

Returned(kind, v) == [kind |-> kind, v |-> v]

\* the Size an operator returns for the i64 it computed, or its panic
Checked(x, checks) ==
    IF IsI64(x) THEN Returned("Size", Size_Bytes(IntNum(x.neg, x.mag)))
    ELSE IF checks = "overflow-checks" THEN Returned("panic", "overflow")
    ELSE Let(Wrap(x), LAMBDA w : Returned("Size", Size_Bytes(IntNum(w.neg, w.mag))))

\* Add for Size: Size::Bytes(self.bytes() + other.bytes())
Add_add(self, other, checks) == Checked(IntAdd(self, other), checks)

\* Sub for Size: Size::Bytes(self.bytes() as i64 - other.bytes() as i64)
Sub_sub(self, other, checks) == Checked(IntAdd(self, NegI64(other)), checks)

\* Mul<U> for Size: Size::Bytes((self.bytes() as Underlying * other.as_()) as i64)
Mul_mul(self, other) ==
    Let(F64ToI64(F64Mul(I64ToF64(self), as_(other))), LAMBDA p :
        Size_Bytes(IntNum(p.neg, p.mag)))

\* Mul<Size> for i64: Size::Bytes((self as i64 * other.bytes()) as i64)
Mul_i64_mul(self, other, checks) == Checked(IntMul(I64(self.neg, self.mag), other), checks)

\* Mul<Size> for f64: Size::Bytes((self * other.bytes() as f64) as i64)
Mul_f64_mul(self, other) ==
    Let(F64ToI64(F64Mul(self.f, I64ToF64(other))), LAMBDA p :
        Size_Bytes(IntNum(p.neg, p.mag)))

\* A faulty comparison: the magnitudes are compared, the signs are not.
Ord_cmp_magnitude(x, y) ==
    IF x.mag = y.mag THEN "Equal" ELSE IF Lt(x.mag, y.mag) THEN "Less" ELSE "Greater"

\* i64::partial_cmp
Ord_cmp(x, y) ==
    IF x = y THEN "Equal"
    ELSE IF x.neg /\ ~y.neg THEN "Less"
    ELSE IF ~x.neg /\ y.neg THEN "Greater"
    ELSE IF x.neg THEN (IF Lt(y.mag, x.mag) THEN "Less" ELSE "Greater")
    ELSE (IF Lt(x.mag, y.mag) THEN "Less" ELSE "Greater")

\* PartialEq for Size: self.bytes() == other.bytes()
PartialEq_eq(self, other) == Ord_cmp(self, other) = "Equal"

\* PartialOrd for Size: self.bytes().partial_cmp(&other.bytes())
PartialOrd_partial_cmp(self, other) == Ord_cmp(self, other)

(***************************************************************************)
(* The numbers the constructors and the operators are driven with: the     *)
(* integers up to MaxInt, the values of the documentation and the tests,   *)
(* integers that an f64 does not hold, the ends of i64, u64 and f64, the   *)
(* infinities and NaN.                                                     *)
(***************************************************************************)
MaxInt == 2

F64_MAX == [k |-> "fin", neg |-> FALSE, m |-> Sub(Shl(<<1>>, 53), <<1>>), e |-> 971]
F64_MIN == [k |-> "fin", neg |-> TRUE, m |-> Sub(Shl(<<1>>, 53), <<1>>), e |-> 971]

\* 2^53 + 1, the least positive integer that no f64 holds
Beyond53 == Add(Shl(<<1>>, 53), <<1>>)
\* an odd integer below 2^53 whose product with 1000 no f64 holds
OddKilo == Add(Shl(<<1>>, 47), <<1>>)

IntValues ==
    {Num(n) : n \in 0..MaxInt}
    \cup {Num(n) : n \in {0 - 1, 4, 7, 12, 42, 200}}
    \cup {Num(1024 * n) : n \in 1..MaxInt}
    \cup {IntNum(FALSE, Beyond53), IntNum(FALSE, OddKilo),
          IntNum(FALSE, I64_MAX_MAG), IntNum(TRUE, I64_MIN_MAG),
          IntNum(FALSE, U64_MAX)}

FloatValues ==
    {FloatNum(DecToF64(FALSE, <<2>>, 0)), FloatNum(DecToF64(FALSE, <<25>>, 0 - 1)),
     FloatNum(DecToF64(FALSE, <<41>>, 0 - 1)), FloatNum(DecToF64(TRUE, <<5>>, 0 - 1)),
     FloatNum(DecToF64(FALSE, <<2048>>, 0 - 3)),
     FloatNum(F64_MAX), FloatNum(F64_MIN),
     FloatNum(F64_INF(FALSE)), FloatNum(F64_INF(TRUE)), FloatNum(F64_NAN)}

Values == IntValues \cup FloatValues

\* from_bytes takes an i64; every other constructor takes any primitive
Accepts(ctor, value) ==
    ctor = "from_bytes" => (value.ty = "int" /\ IsI64(value))

\* the constructor calls whose Sizes the operators on two Sizes are driven
\* with
PairConstructors ==
    {"from_bytes", "Bytes", "from_kilobytes", "from_kibibytes", "from_mebibytes"}
PairValues ==
    {Num(n) : n \in 0..MaxInt}
    \cup {Num(n) : n \in {0 - 1, 7}}
    \cup {Num(1024 * n) : n \in 1..MaxInt}
    \cup {IntNum(FALSE, Beyond53), IntNum(FALSE, I64_MAX_MAG),
          IntNum(TRUE, I64_MIN_MAG), FloatNum(DecToF64(FALSE, <<2>>, 0))}
Paired(call) == call.ctor \in PairConstructors /\ call.value \in PairValues

\* the scalars a Size is multiplied with
Scalars ==
    {Num(n) : n \in 0..MaxInt}
    \cup {Num(n) : n \in {0 - 1, 3, 7}}
    \cup {IntNum(FALSE, I64_MAX_MAG),
          FloatNum(DecToF64(FALSE, <<7>>, 0)), FloatNum(DecToF64(FALSE, <<25>>, 0 - 1)),
          FloatNum(DecToF64(TRUE, <<5>>, 0 - 1)),
          FloatNum(F64_INF(FALSE)), FloatNum(F64_NAN)}

(***************************************************************************)
(* The state machine of Size values: up to two Sizes are constructed, and  *)
(* one operator is applied to them.                                        *)
(***************************************************************************)
InitSize ==
    /\ op = "start"
    /\ NoSizes
    /\ size = Int64(0)
    /\ base = DEFAULT_BASE
    /\ style = DEFAULT_STYLE
    /\ scale = DEFAULT_SCALE
    /\ out = NotRendered
    /\ input = ""
    /\ parsed = NotParsed

SizeFrame == UNCHANGED <<size, base, style, scale, out, input, parsed>>

\* a constructor call, which makes the first Size
Size_new(ctor, value) ==
    /\ lhs = NoSize
    /\ Accepts(ctor, value)
    /\ op' = "new"
    /\ arg' = [ctor |-> ctor, value |-> value]
    /\ lhs' = Construct(ctor, value)
    /\ UNCHANGED <<rhs, ret>>
    /\ SizeFrame

\* a second constructor call, which makes the other operand
Size_new_other(ctor, value) ==
    /\ op = "new" /\ rhs = NoSize
    /\ Paired(arg)
    /\ Accepts(ctor, value)
    /\ op' = "new"
    /\ arg' = [ctor |-> ctor, value |-> value]
    /\ rhs' = Construct(ctor, value)
    /\ UNCHANGED <<lhs, ret>>
    /\ SizeFrame

\* lhs == rhs (and lhs == &rhs)
Size_eq ==
    /\ rhs # NoSize /\ ret.kind = "none"
    /\ op' = "eq"
    /\ ret' = Returned("bool", PartialEq_eq(lhs, rhs))
    /\ arg' = NoCall
    /\ UNCHANGED <<lhs, rhs>>
    /\ SizeFrame

\* lhs.partial_cmp(&rhs), which is behind <, <=, > and >=
Size_partial_cmp ==
    /\ rhs # NoSize /\ ret.kind = "none"
    /\ op' = "partial_cmp"
    /\ ret' = Returned("Ordering", PartialOrd_partial_cmp(lhs, rhs))
    /\ arg' = NoCall
    /\ UNCHANGED <<lhs, rhs>>
    /\ SizeFrame

\* lhs + rhs, by value or by reference
Size_add(checks) ==
    /\ rhs # NoSize /\ ret.kind = "none"
    /\ op' = "add"
    /\ ret' = Add_add(lhs, rhs, checks)
    /\ arg' = NoCall
    /\ UNCHANGED <<lhs, rhs>>
    /\ SizeFrame

\* lhs - rhs, by value or by reference
Size_sub(checks) ==
    /\ rhs # NoSize /\ ret.kind = "none"
    /\ op' = "sub"
    /\ ret' = Sub_sub(lhs, rhs, checks)
    /\ arg' = NoCall
    /\ UNCHANGED <<lhs, rhs>>
    /\ SizeFrame

\* lhs * n
Size_mul(n) ==
    /\ lhs # NoSize /\ rhs = NoSize /\ ret.kind = "none"
    /\ op' = "mul"
    /\ arg' = [ctor |-> "scalar", value |-> n]
    /\ ret' = Returned("Size", Mul_mul(lhs, n))
    /\ UNCHANGED <<lhs, rhs>>
    /\ SizeFrame

\* n * lhs for an i64 n
i64_mul(n, checks) ==
    /\ lhs # NoSize /\ rhs = NoSize /\ ret.kind = "none"
    /\ n.ty = "int"
    /\ op' = "i64_mul"
    /\ arg' = [ctor |-> "scalar", value |-> n]
    /\ ret' = Mul_i64_mul(n, lhs, checks)
    /\ UNCHANGED <<lhs, rhs>>
    /\ SizeFrame

\* x * lhs for an f64 x
f64_mul(x) ==
    /\ lhs # NoSize /\ rhs = NoSize /\ ret.kind = "none"
    /\ x.ty = "f64"
    /\ op' = "f64_mul"
    /\ arg' = [ctor |-> "scalar", value |-> x]
    /\ ret' = Returned("Size", Mul_f64_mul(x, lhs))
    /\ UNCHANGED <<lhs, rhs>>
    /\ SizeFrame

NextSize ==
    \/ \E ctor \in Constructors, value \in Values : Size_new(ctor, value)
    \/ \E ctor \in PairConstructors, value \in PairValues : Size_new_other(ctor, value)
    \/ Size_eq
    \/ Size_partial_cmp
    \/ \E checks \in Checks : Size_add(checks)
    \/ \E checks \in Checks : Size_sub(checks)
    \/ \E n \in Scalars : Size_mul(n)
    \/ \E n \in Scalars, checks \in Checks : i64_mul(n, checks)
    \/ \E x \in Scalars : f64_mul(x)

SpecSize == InitSize /\ [][NextSize]_vars

(***************************************************************************)
(* lib.rs: Size::to_string(base, style) and the rule tables of lib.rs.     *)
(* They are the tables of fmt.rs with the digit count written into each    *)
(* format string; the last rule of each is written "{:0}", a flag and no   *)
(* precision.                                                              *)
(***************************************************************************)
\* `{}` of a finite f64 that is not negative and not below 1: the fewest
\* decimal digits that read back as the same f64
RECURSIVE FmtShortestFrom(_, _)
FmtShortestFrom(x, d) ==
    IF d >= 17 \/ DecToF64(FALSE, F64Scaled(x, d), 0 - d) = x THEN FmtFixed(x, d)
    ELSE FmtShortestFrom(x, d + 1)

FmtShortest(x) == FmtShortestFrom(x, 0)

\* the digit count of a rule of lib.rs; -1 stands for no precision
lib_digits(rule) == IF rule.less_than = U64_MAX THEN 0 - 1 ELSE rule.digits

\* lib.rs BASE10_RULES and BASE2_RULES
lib_Rules(b) ==
    [i \in 1..Len(Rules(b)) |->
        FormatRule(Rules(b)[i].less_than, Rules(b)[i].div,
                   lib_digits(Rules(b)[i]), Rules(b)[i].unit)]

\* a formatter closure of lib.rs, applied to bytes
lib_Rule_formatter(rule, bytes) ==
    IF rule.unit = "Byte" THEN FmtInt(bytes)
    ELSE Let(F64Div(U64ToF64(bytes), I64ToF64(I64(FALSE, rule.div))), LAMBDA x :
             IF rule.digits < 0 THEN FmtShortest(x) ELSE FmtFixed(x, rule.digits))

\* Size::format(&self, fmt, base, style) of lib.rs
Size_format(b, st, bytes) ==
    LET minus == IF bytes.neg THEN "-" ELSE ""
    IN  Let(Magnitude(bytes), LAMBDA mag :
        Let(RuleIndex(b, mag), LAMBDA idx :
            IF idx >= Len(lib_Rules(b)) THEN [panic |-> TRUE, text |-> minus, rule |-> idx]
            ELSE Let(lib_Rules(b)[idx + 1], LAMBDA rule :
                     [panic |-> FALSE,
                      text  |-> minus \o lib_Rule_formatter(rule, mag)
                                     \o Unit_format(rule.unit, mag, st),
                      rule  |-> idx])))

\* Size::to_string(&self, base, style)
Size_to_string(b, st) ==
    /\ op = "format"
    /\ op' = "Size::to_string"
    /\ base' = b
    /\ style' = st
    /\ out' = Rendered(Size_format(b, st, size))
    /\ UNCHANGED <<size, scale>>
    /\ UNCHANGED parseVars
    /\ UNCHANGED sizeVars

NextLib ==
    \/ NextFmt
    \/ \E b \in Base, st \in Style : Size_to_string(b, st)

SpecLib == InitFmt /\ [][NextLib]_vars

(***************************************************************************)
(* serde.rs: SizeVisitor and Deserialize for Size.  A deserializer hands   *)
(* the visitor the value it read, by the method of the value's type.       *)
(***************************************************************************)
\* x < y for two f64 (false when either is NaN)
F64Lt(x, y) ==
    IF x.k = "nan" \/ y.k = "nan" THEN FALSE
    ELSE IF x.k = "inf" THEN x.neg /\ ~(y.k = "inf" /\ y.neg)
    ELSE IF y.k = "inf" THEN ~y.neg
    ELSE IF x.m = <<>> /\ y.m = <<>> THEN FALSE
    ELSE IF x.m = <<>> THEN ~y.neg
    ELSE IF y.m = <<>> THEN x.neg
    ELSE IF x.neg # y.neg THEN x.neg
    ELSE Let(BitLen(x.m) + x.e, LAMBDA bx :
         Let(BitLen(y.m) + y.e, LAMBDA by :
         Let(IF bx # by THEN bx < by
             ELSE Let(Min2(x.e, y.e), LAMBDA mn :
                      Lt(Shl(x.m, x.e - mn), Shl(y.m, y.e - mn))), LAMBDA below :
             IF x.neg THEN ~below /\ x # y ELSE below)))

\* `x as f32` for an i64: the nearest value of 24 significant bits, ties to
\* even (an f32 is held in the record of the f64 equal to it)
I64ToF32(x) ==
    Let(BitLen(x.mag), LAMBDA bl :
        IF bl <= 24 THEN RoundBits(x.neg, x.mag, 0, FALSE)
        ELSE Let(Shr(x.mag, bl - 24 - 1), LAMBDA s :
             Let(Shr(s.q, 1).q, LAMBDA m0 :
             Let(IF IsOdd(s.q) /\ (s.sticky \/ IsOdd(m0))
                 THEN Add(m0, <<1>>) ELSE m0, LAMBDA m1 :
                 RoundBits(x.neg, m1, bl - 24, FALSE)))))

\* Result<Size, E>
VisitOk(bytes) == Returned("Ok", bytes)
VisitErr(msg) == Returned("Err", msg)

\* SizeVisitor::visit_i64
visit_i64(value) == VisitOk(I64(value.neg, value.mag))

\* SizeVisitor::visit_u64
visit_u64(value) ==
    IF Lt(I64_MAX_MAG, value) THEN VisitErr("out of range") ELSE VisitOk(I64(FALSE, value))

\* SizeVisitor::visit_f32
visit_f32(value) ==
    IF value.k = "inf" \/ F64Lt(I64ToF32(I64_MAX), value) \/ F64Lt(value, I64ToF32(I64_MIN))
    THEN VisitErr("out of range") ELSE VisitOk(F64ToI64(value))

\* SizeVisitor::visit_f64
visit_f64(value) ==
    IF value.k = "inf" \/ F64Lt(I64ToF64(I64_MAX), value) \/ F64Lt(value, I64ToF64(I64_MIN))
    THEN VisitErr("out of range") ELSE VisitOk(F64ToI64(value))

\* Visitor::visit_str, which SizeVisitor does not implement: the trait's
\* default rejects the value by its type
visit_str(v) == VisitErr("invalid type")

\* the values a deserializer is driven with: every size of the formatter,
\* the unsigned values about i64::MAX, the floats about both ends of i64,
\* and strings
Pow2F(neg, n) == RoundBits(neg, Shl(<<1>>, n), 0, FALSE)
I64Inputs == Sizes
U64Inputs == Magnitudes \cup {I64_MIN_MAG, Add(I64_MIN_MAG, <<1>>), U64_MAX}
F64Inputs ==
    {v.f : v \in FloatValues}
    \cup {DecToF64(FALSE, <<42>>, 0), DecToF64(FALSE, <<429>>, 0 - 1),
          DecToF64(TRUE, <<429>>, 0 - 1), DecToF64(FALSE, Dec(<<2, 9, 9, 7, 9, 2, 4, 5, 8>>), 110),
          Pow2F(FALSE, 63), Pow2F(TRUE, 63), Pow2F(FALSE, 64),
          RoundBits(FALSE, Sub(Shl(<<1>>, 63), Shl(<<1>>, 10)), 0, FALSE),
          RoundBits(TRUE, Add(Shl(<<1>>, 63), Shl(<<1>>, 11)), 0, FALSE)}
F32Inputs ==
    {F64_NAN, F64_INF(FALSE), F64_INF(TRUE), F64_ZERO(FALSE),
     DecToF64(FALSE, <<425>>, 0 - 1), DecToF64(TRUE, <<5>>, 0 - 1),
     Pow2F(FALSE, 63), Pow2F(TRUE, 63),
     RoundBits(FALSE, Sub(Shl(<<1>>, 63), Shl(<<1>>, 39)), 0, FALSE),
     RoundBits(TRUE, Add(Shl(<<1>>, 63), Shl(<<1>>, 40)), 0, FALSE),
     RoundBits(FALSE, Sub(Shl(<<1>>, 24), <<1>>), 104, FALSE)}
StrInputs == {"12.92 gigabytes", "12920000000", "42", "1 KiB", "42.0", "Not a number", ""}

\* <Size as Deserialize>::deserialize: deserializer.deserialize_i64(SizeVisitor),
\* for an input the deserializer reads as an i64
deserialize_i64(value) ==
    /\ op = "start"
    /\ op' = "deserialize"
    /\ arg' = [ctor |-> "visit_i64", value |-> IntNum(value.neg, value.mag)]
    /\ ret' = visit_i64(value)
    /\ UNCHANGED <<lhs, rhs>>
    /\ SizeFrame

\* ... as a u64
deserialize_u64(value) ==
    /\ op = "start"
    /\ op' = "deserialize"
    /\ arg' = [ctor |-> "visit_u64", value |-> IntNum(FALSE, value)]
    /\ ret' = visit_u64(value)
    /\ UNCHANGED <<lhs, rhs>>
    /\ SizeFrame

\* ... as an f32
deserialize_f32(value) ==
    /\ op = "start"
    /\ op' = "deserialize"
    /\ arg' = [ctor |-> "visit_f32", value |-> FloatNum(value)]
    /\ ret' = visit_f32(value)
    /\ UNCHANGED <<lhs, rhs>>
    /\ SizeFrame

\* ... as an f64
deserialize_f64(value) ==
    /\ op = "start"
    /\ op' = "deserialize"
    /\ arg' = [ctor |-> "visit_f64", value |-> FloatNum(value)]
    /\ ret' = visit_f64(value)
    /\ UNCHANGED <<lhs, rhs>>
    /\ SizeFrame

\* ... as a string
deserialize_str(v) ==
    /\ op = "start"
    /\ op' = "deserialize"
    /\ arg' = [ctor |-> "visit_str", value |-> NoCall.value]
    /\ input' = v
    /\ ret' = visit_str(v)
    /\ UNCHANGED <<lhs, rhs, size, base, style, scale, out, parsed>>

NextSerde ==
    \/ \E value \in I64Inputs : deserialize_i64(value)
    \/ \E value \in U64Inputs : deserialize_u64(value)
    \/ \E value \in F32Inputs : deserialize_f32(value)
    \/ \E value \in F64Inputs : deserialize_f64(value)
    \/ \E v \in StrInputs : deserialize_str(v)

SpecSerde == InitSize /\ [][NextSerde]_vars

(***************************************************************************)
(* no_std: Intermediate = i64, and Size::Bytes of a u64.                   *)
(***************************************************************************)
\* A faulty as_ for u64: `self as Intermediate`, the cast of the other
\* integer types, which keeps the low 64 bits.
as_cast(value) == Wrap(I64(FALSE, value))

\* as_intermediate!(u64, clamp: true): AsIntermediate::as_ for u64
as_clamp(value) ==
    IF Lt(I64_MAX_MAG, value) THEN I64_MAX ELSE I64(FALSE, value)

\* Size::Bytes(t) for a u64 t: Self::from_bytes(t.as_() as i64)
nostd_Size_Bytes(t) == from_bytes(as_clamp(t))

\* a call of Size::Bytes with a u64
nostd_Size_new(value) ==
    /\ lhs = NoSize
    /\ op' = "new"
    /\ arg' = [ctor |-> "Bytes", value |-> IntNum(FALSE, value)]
    /\ lhs' = nostd_Size_Bytes(value)
    /\ UNCHANGED <<rhs, ret>>
    /\ SizeFrame

NextNoStd == \E value \in U64Inputs \cup {Sub(U64_MAX, <<1>>)} : nostd_Size_new(value)

SpecNoStd == InitSize /\ [][NextNoStd]_vars

(***************************************************************************)
(* Properties of the formatter, checked under SpecFmt.                     *)
(***************************************************************************)
EndsWith(s, t) == Len(s) >= Len(t) /\ SubSeq(s, Len(s) - Len(t) + 1, Len(s)) = t

\* the rendered text from its first space on: the unit text that Unit::format
\* wrote after the number
AfterNumber(s) ==
    LET sp == {i \in 1..Len(s) : Ch(s, i) = " "}
    IN  IF sp = {} THEN ""
        ELSE SubSeq(s, CHOOSE i \in sp : \A j \in sp : i <= j, Len(s))

\* the unit of the rule a rendering took
ChosenUnit == Rules(base)[out.rule + 1].unit

\* the rules of a table, from 0, whose threshold is strictly above m
Above(b, m) == {i \in 0..(Len(Rules(b)) - 1) : Lt(m, Rules(b)[i + 1].less_than)}

\* C1: the rule a rendering takes is the first rule of the base's table whose
\* less_than is strictly greater than the magnitude, so a magnitude equal to
\* a threshold takes the rule after the one with that threshold; 1000 bytes
\* in Base10 is "1.00 KB" and 999 bytes is "999 bytes".
C1_FirstRuleAbove ==
    out.state # "none" =>
        /\ out.state = "ok"
        /\ out.rule \in Above(base, Magnitude(size))
        /\ \A j \in Above(base, Magnitude(size)) : out.rule <= j
        /\ \A i \in 1..Len(Rules(base)) :
              Rules(base)[i].less_than = Magnitude(size) => out.rule = i
        /\ (base = "Base10" /\ style = "Default" /\ size = Int64(1000))
              => out.text = "1.00 KB"
        /\ (base = "Base10" /\ style = "Default" /\ size = Int64(999))
              => out.text = "999 bytes"

C1_Witness ==
    /\ op = "to_string" /\ base = "Base10" /\ style = "Default"
    /\ size = Int64(1000) /\ out.rule = 1 /\ out.text = "1.00 KB"

\* C7 as stated: for every x other than i64::MIN, format(-x) is "-" followed
\* by format(x).  It fails for x = 0, whose negation renders without a sign,
\* and for every negative x.
C7_SignSymmetryAnyX ==
    (out.state = "ok" /\ size # I64_MIN) =>
        inner_fmt(base, style, scale, NegI64(size)).text = "-" \o out.text

\* C7: for every x in 1..=i64::MAX, every base and every style, format(-x)
\* is "-" followed by format(x).  The state holds -x; x is its negation.
C7_SignSymmetry ==
    (out.state = "ok" /\ size.neg /\ size # I64_MIN) =>
        out.text = "-" \o inner_fmt(base, style, scale, NegI64(size)).text

C7_Witness ==
    /\ op = "to_string" /\ base = "Base10" /\ style = "Full"
    /\ size = Int64(0 - 1000) /\ out.text = "-1.00 Kilobytes"

\* C8 as stated: in the styles Full and FullLowercase a magnitude of exactly
\* one of the chosen unit is written with the unit name in the singular.
C8_SingularForOneUnit ==
    (/\ out.state = "ok"
     /\ style \in {"Full", "FullLowercase"}
     /\ Magnitude(size) = Rules(base)[out.rule + 1].div) =>
        AfterNumber(out.text) =
            " " \o Unit_text(ChosenUnit)[IF style = "Full" THEN 2 ELSE 1]

\* C9: Abbreviated and AbbreviatedLowercase write the abbreviation with no
\* "s" after it, whatever the byte count; Full and FullLowercase write the
\* name followed by "s" for every byte count other than 1, 0 included
\* ("0 bytes").
C9_PluralOnlyInFullStyles ==
    out.state = "ok" =>
        /\ style = "Abbreviated" =>
              AfterNumber(out.text) = " " \o Unit_text(ChosenUnit)[4]
        /\ style = "AbbreviatedLowercase" =>
              AfterNumber(out.text) = " " \o Unit_text(ChosenUnit)[3]
        /\ (style = "Full" /\ Magnitude(size) # <<1>>) =>
              AfterNumber(out.text) = " " \o Unit_text(ChosenUnit)[2] \o "s"
        /\ (style = "FullLowercase" /\ Magnitude(size) # <<1>>) =>
              AfterNumber(out.text) = " " \o Unit_text(ChosenUnit)[1] \o "s"
        /\ (style = "FullLowercase" /\ size = Int64(0)) => out.text = "0 bytes"

C9_Witness ==
    /\ op = "to_string" /\ style = "FullLowercase"
    /\ size = Int64(0) /\ out.text = "0 bytes"

\* C10: with Style::Default the text is the FullLowercase text when the rule
\* taken has the unit Byte and the Abbreviated text for every other unit, in
\* both bases; Display of a Size is the Base2, Style::Default rendering:
\* 200 is "200 bytes", 200 KiB is "200 KiB", 2048 KiB is "2.00 MiB".
C10_DefaultStyle ==
    /\ (out.state = "ok" /\ style = "Default") =>
          out.text = inner_fmt(base,
                               IF ChosenUnit = "Byte" THEN "FullLowercase"
                               ELSE "Abbreviated",
                               scale, size).text
    /\ op = "Display" =>
          /\ out = Rendered(inner_fmt("Base2", "Default", scale, size))
          /\ size = Int64(200) => out.text = "200 bytes"
          /\ size = Int64(200 * 1024) => out.text = "200 KiB"
          /\ size = Int64(2048 * 1024) => out.text = "2.00 MiB"

C10_Witness ==
    /\ op = "Display" /\ size = Int64(2048 * 1024) /\ out.text = "2.00 MiB"

\* the number a rendering shows: the text between the sign and the unit,
\* as the integer N its digits write and the count d of digits after the "."
ShownNumber(text) ==
    LET from == IF Len(text) > 0 /\ Ch(text, 1) = "-" THEN 2 ELSE 1
        num  == SubSeq(text, from, Len(text) - Len(AfterNumber(text)))
        dots == {i \in 1..Len(num) : Ch(num, i) = "."}
        ip   == IF dots = {} THEN num ELSE SubSeq(num, 1, SetMin(dots) - 1)
        fp   == IF dots = {} THEN "" ELSE SubSeq(num, SetMin(dots) + 1, Len(num))
    IN  [ok |-> Len(ip) > 0 /\ AllDigits(ip) /\ AllDigits(fp)
                /\ (dots = {} \/ Len(fp) > 0),
         N  |-> IF AllDigits(ip \o fp) THEN Dec(DigitsOf(ip \o fp)) ELSE <<>>,
         d  |-> Len(fp)]

AbsDiff(a, b) == IF Lt(a, b) THEN Sub(b, a) ELSE Sub(a, b)

\* N / 10^d is a nearest multiple of 10^-d to the finite f64 x >= 0
NearestToF64(N, d, x) ==
    IF x.e >= 0 THEN N = Shl(Mul(x.m, PowS(10, d)), x.e)
    ELSE Le(MulS(AbsDiff(Shl(N, 0 - x.e), Mul(x.m, PowS(10, d))), 2),
            Shl(<<1>>, 0 - x.e))

\* N / 10^d is a nearest multiple of 10^-d to the quotient mag / div
NearestToQuotient(N, d, mag, div) ==
    Le(MulS(AbsDiff(Mul(N, div), Mul(mag, PowS(10, d))), 2), div)

\* the rule a rendering took
ChosenRule == Rules(base)[out.rule + 1]

\* C11 as stated: the number shown is magnitude / unit_multiplier rounded to
\* the nearest value at the rule's digit count.  Read of the quotient itself
\* it fails next to 2.5 EiB, where the f64 quotient is exactly 2.5.
C11_NearestToQuotient ==
    out.state = "ok" =>
        /\ ShownNumber(out.text).ok
        /\ ShownNumber(out.text).d = ChosenRule.digits
        /\ NearestToQuotient(ShownNumber(out.text).N, ChosenRule.digits,
                             Magnitude(size), ChosenRule.div)

\* C11: the number shown has the rule's digit count and is the value with
\* that many digits nearest to the f64 quotient
\* (magnitude as f64) / (unit_multiplier as f64), not that quotient cut off;
\* 1024, 2048 and 4096 bytes in Base10 are "1.02 KB", "2.05 KB" and
\* "4.10 KB", and 1340249 bytes is "1.28 MiB" in Base2 and "1.34 megabytes"
\* in Base10 with FullLowercase.
C11_NearestToFloatQuotient ==
    out.state = "ok" =>
        /\ ShownNumber(out.text).ok
        /\ ShownNumber(out.text).d = ChosenRule.digits
        /\ NearestToF64(ShownNumber(out.text).N, ChosenRule.digits,
                        F64Div(U64ToF64(Magnitude(size)),
                               U64ToF64(ChosenRule.div)))
        /\ (base = "Base10" /\ style = "Default") =>
              /\ size = Int64(1024) => out.text = "1.02 KB"
              /\ size = Int64(2048) => out.text = "2.05 KB"
              /\ size = Int64(4096) => out.text = "4.10 KB"
        /\ (base = "Base2" /\ style = "Default" /\ size = Int64(1340249)) =>
              out.text = "1.28 MiB"
        /\ (base = "Base10" /\ style = "FullLowercase" /\ size = Int64(1340249)) =>
              out.text = "1.34 megabytes"

C11_Witness ==
    /\ op = "to_string" /\ base = "Base10" /\ style = "Default"
    /\ size = Int64(2048) /\ out.text = "2.05 KB"

\* the multiplier of a unit
MultiplierOfUnit(u) ==
    CASE u = "Byte" -> BYTE
      [] u = "Kilobyte" -> KILOBYTE [] u = "Megabyte" -> MEGABYTE
      [] u = "Gigabyte" -> GIGABYTE [] u = "Terabyte" -> TERABYTE
      [] u = "Petabyte" -> PETABYTE [] u = "Exabyte" -> EXABYTE
      [] u = "Kibibyte" -> KIBIBYTE [] u = "Mebibyte" -> MEBIBYTE
      [] u = "Gibibyte" -> GIBIBYTE [] u = "Tebibyte" -> TEBIBYTE
      [] u = "Pebibyte" -> PEBIBYTE [] u = "Exbibyte" -> EXBIBYTE

\* the digit count the precision rule gives a magnitude in a unit of
\* multiplier m: 2 for a quotient in [1, 10), 1 in [10, 100), 0 in
\* [100, next), and -1 outside of these
DigitsByMagnitude(mag, m, next) ==
    IF Lt(mag, m) THEN 0 - 1
    ELSE IF Lt(mag, MulS(m, 10)) THEN 2
    ELSE IF Lt(mag, MulS(m, 100)) THEN 1
    ELSE IF Lt(mag, MulS(m, next)) THEN 0
    ELSE 0 - 1

C13_RoundTrip ==
    (op = "round_trip" /\ base = "Base10" /\ style = "Abbreviated") =>
        /\ parsed.kind = "Ok"
        /\ parsed.bytes.neg = size.neg
        /\ DivMod(Mul(parsed.bytes.mag, PowS(10, ChosenRule.digits)),
                  ChosenRule.div).r = <<>>
        /\ NearestToQuotient(
              DivMod(Mul(parsed.bytes.mag, PowS(10, ChosenRule.digits)),
                     ChosenRule.div).q,
              ChosenRule.digits, Magnitude(size), ChosenRule.div)
        /\ Lt(Magnitude(size), KILOBYTE) => parsed.bytes = size

\* C18: formatting is total.  For every byte count (0, i64::MAX and
\* i64::MIN included), every base and every style, the index taken from the
\* binary search is an index of the table, at most 16, and text is
\* written without a panic.
C18_FormattingTotal ==
    op \in {"to_string", "Display"} =>
        /\ out.state = "ok"
        /\ out.rule \in 0..16
        /\ out.rule < Len(IF op = "Display" \/ base = "Base2" THEN BASE2_RULES
                           ELSE BASE10_RULES)
        /\ out.text # ""

C18_Witness ==
    /\ op = "to_string" /\ size = I64_MAX
    /\ out.state = "ok" /\ out.rule = 16 /\ out.text # ""

\* C19: formatting i64::MIN writes "-" and then what formatting i64::MAX
\* writes, with no overflow and no panic: "-8 EiB" in the default
\* rendering.
C19_MinAsMax ==
    (op \in {"to_string", "Display"} /\ size = I64_MIN) =>
        /\ out.state = "ok"
        /\ op = "to_string" =>
               out.text = "-" \o inner_fmt(base, style, scale, I64_MAX).text
        /\ op = "Display" =>
               out.text = "-" \o inner_fmt(DEFAULT_BASE, DEFAULT_STYLE, DEFAULT_SCALE,
                                           I64_MAX).text
        /\ (op = "Display" \/ (base = "Base2" /\ style = "Default")) =>
               out.text = "-8 EiB"

C19_Witness ==
    op = "Display" /\ size = I64_MIN /\ out.state = "ok" /\ out.text = "-8 EiB"

\* C23: a Size of 42 kilobytes, 42000 bytes, is displayed as "41 KiB" by
\* Display and as "42 KB" with the base set to Base10.
C23_FortyTwoKilobytes ==
    size = Int64(42000) =>
        /\ op = "Display" => out.text = "41 KiB"
        /\ (op = "to_string" /\ base = "Base10" /\ style = DEFAULT_STYLE) =>
               out.text = "42 KB"

\* the units of a base above the byte, from the smallest
LargerUnits(b) ==
    IF b = "Base2"
    THEN <<"Kibibyte", "Mebibyte", "Gibibyte", "Tebibyte", "Pebibyte", "Exbibyte">>
    ELSE <<"Kilobyte", "Megabyte", "Gigabyte", "Terabyte", "Petabyte", "Exabyte">>

\* 1000^k for Base10 and 1024^k for Base2
MultiplierOfRank(b, k) == IF b = "Base2" THEN PowS(1024, k) ELSE PowS(1000, k)

\* C24: each base's table has exactly 17 entries; the thresholds increase
\* strictly; the multiplier of the unit never decreases from one entry to
\* the next; the first entry is the Byte unit; the last entry has the
\* threshold u64::MAX and the largest unit of the base; every threshold but
\* the last is 1, 10 or 100 times a unit multiplier of the base.
C24_RuleTables ==
    \A b \in Base :
        /\ Len(Rules(b)) = 17
        /\ \A i \in 1..16 :
              /\ Lt(Rules(b)[i].less_than, Rules(b)[i + 1].less_than)
              /\ Le(MultiplierOfUnit(Rules(b)[i].unit), MultiplierOfUnit(Rules(b)[i + 1].unit))
              /\ \E c \in {1, 10, 100}, k \in 1..6 :
                    Rules(b)[i].less_than = MulS(MultiplierOfRank(b, k), c)
        /\ Rules(b)[1].unit = "Byte"
        /\ Rules(b)[17].less_than = Sub(Shl(<<1>>, 64), <<1>>)
        /\ Rules(b)[17].unit = LargerUnits(b)[6]
        /\ MultiplierOfUnit(Rules(b)[17].unit) = MultiplierOfRank(b, 6)

C24_Witness ==
    /\ op = "to_string" /\ out.rule = 16 /\ size = I64_MAX
    /\ Rules(base)[out.rule + 1].less_than = U64_MAX
    /\ Rules(base)[out.rule + 1].unit = LargerUnits(base)[6]

\* the rules at i, i + 1 and i + 2 are brackets of the unit u with 2, 1 and
\* 0 decimal digits
ThreeBrackets(b, i, u) ==
    /\ i + 2 <= Len(Rules(b))
    /\ \A j \in 0..2 : Rules(b)[i + j].unit = u /\ Rules(b)[i + j].digits = 2 - j

\* C25 as stated: after the byte bracket, each of the 6 larger units has
\* three consecutive brackets of 2, 1 and 0 decimal digits.
C25_SixUnitsThreeBrackets ==
    \A b \in Base : \A k \in 1..6 : ThreeBrackets(b, 3 * k - 1, LargerUnits(b)[k])

\* C25: after the byte bracket, each of the 5 units from kilo/kibi to
\* peta/pebi has three consecutive brackets of 2, 1 and 0 decimal digits, in
\* that order; the largest unit has one bracket, the last of the table, of
\* 0 digits.
C25_FiveUnitsThreeBrackets ==
    \A b \in Base :
        /\ \A k \in 1..5 : ThreeBrackets(b, 3 * k - 1, LargerUnits(b)[k])
        /\ \A i \in 1..Len(Rules(b)) :
              Rules(b)[i].unit = LargerUnits(b)[6] <=> i = 17
        /\ Rules(b)[17].digits = 0
        /\ (/\ op \in {"to_string", "Display"}
            /\ b = (IF op = "Display" THEN DEFAULT_BASE ELSE base)
            /\ out.rule \in 1..15) =>
               ThreeBrackets(b, out.rule + 1 - ((out.rule - 1) % 3),
                             Rules(b)[out.rule + 1].unit)

C25_Witness ==
    /\ op = "to_string" /\ base = "Base10" /\ style = "Default"
    /\ size = Int64(42000) /\ out.rule = 2 /\ out.text = "42.0 KB"
    /\ Rules(base)[out.rule + 1].digits = 1

\* C26: the byte bracket and the last bracket render the number with 0
\* decimal digits, by the tables of lib.rs and by those of fmt.rs: every
\* magnitude below one kilobyte (kibibyte) and every magnitude of at least one
\* exabyte (exbibyte) is printed as an integer, with no fractional part.
C26_IntegerAtBothEnds ==
    (/\ op \in {"to_string", "Display", "Size::to_string"}
     /\ LET b == IF op = "Display" THEN DEFAULT_BASE ELSE base
        IN  \/ Lt(Magnitude(size), MultiplierOfRank(b, 1))
            \/ Le(MultiplierOfRank(b, 6), Magnitude(size))) =>
        /\ out.state = "ok"
        /\ "." \notin Chars(out.text)

\* C28: for every magnitude below the largest unit, the number shown,
\* rounded to the rule's digits, is below the ratio between consecutive
\* units (1000 in Base10, 1024 in Base2) and within the range of its
\* bracket: below 10 with 2 digits, below 100 with 1 digit.  The text is
\* never "1000 KB", "1024 KiB" or "10.00 KB".
C28_WithinBracket ==
    (/\ op = "to_string" /\ out.state = "ok"
     /\ Lt(Magnitude(size), MultiplierOfRank(base, 6))) =>
        Let(ShownNumber(out.text), LAMBDA n :
            /\ n.ok
            /\ Lt(n.N, MulS(PowS(10, n.d), IF base = "Base2" THEN 1024 ELSE 1000))
            /\ n.d = 2 => Lt(n.N, MulS(PowS(10, n.d), 10))
            /\ n.d = 1 => Lt(n.N, MulS(PowS(10, n.d), 100))
            /\ out.text \notin {"1000 KB", "1024 KiB", "10.00 KB"})

(***************************************************************************)
(* Properties of the constructors, the comparisons and the arithmetic of   *)
(* Size, checked under SpecSize.                                           *)
(***************************************************************************)
\* the multiplier of the unit a constructor is named after: 1000^k or 1024^k
MultiplierOfConstructor(ctor) ==
    CASE ctor = "from_kilobytes" -> PowS(1000, 1) [] ctor = "from_megabytes" -> PowS(1000, 2)
      [] ctor = "from_gigabytes" -> PowS(1000, 3) [] ctor = "from_terabytes" -> PowS(1000, 4)
      [] ctor = "from_petabytes" -> PowS(1000, 5) [] ctor = "from_exabytes"  -> PowS(1000, 6)
      [] ctor = "from_kibibytes" -> PowS(1024, 1) [] ctor = "from_mebibytes" -> PowS(1024, 2)
      [] ctor = "from_gibibytes" -> PowS(1024, 3) [] ctor = "from_tebibytes" -> PowS(1024, 4)
      [] ctor = "from_pebibytes" -> PowS(1024, 5) [] ctor = "from_exbibytes" -> PowS(1024, 6)

\* a number that is an integer or a finite f64 of a size that an i64 can
\* come near
Moderate(value) ==
    value.ty = "int" \/ (value.f.k = "fin" /\ BitLen(value.f.m) + value.f.e <= 64)

\* value * m without its fraction, as an integer, for a Moderate value
TruncatedProduct(value, m) ==
    IF value.ty = "int" THEN I64(value.neg, Mul(value.mag, m))
    ELSE I64(value.f.neg,
             IF value.f.e >= 0 THEN Shl(Mul(value.f.m, m), value.f.e)
             ELSE Shr(Mul(value.f.m, m), 0 - value.f.e).q)

\* the Size the last constructor call made
Made == IF rhs # NoSize THEN rhs ELSE lhs

\* C14 as stated: for every unit constructor and every value v whose product
\* with the multiplier fits an i64, the byte count is v * multiplier without
\* its fraction.  Read of the product itself it fails: from_kilobytes(4.1)
\* is 4100 bytes, and from_kilobytes(2^47 + 1) is not 1000 * (2^47 + 1).
C14_TruncatedProduct ==
    (/\ op = "new" /\ arg.ctor \in UnitConstructors
     /\ Moderate(arg.value)
     /\ IsI64(TruncatedProduct(arg.value, MultiplierOfConstructor(arg.ctor)))) =>
        Made = TruncatedProduct(arg.value, MultiplierOfConstructor(arg.ctor))

\* C14: for every unit constructor and every value v, the byte count is the
\* f64 product (v as f64) * (multiplier as f64) cast to i64, the
\* multiplication before the truncation; for an integer v whose product is
\* below 2^53 in magnitude that is v * multiplier; from_kib(2.5) is 2560
\* bytes, from_kilobytes(42) is 42000 and from_mib(4) is 4194304.
C14_FloatProductTruncated ==
    (op = "new" /\ arg.ctor \in UnitConstructors) =>
        /\ Made = F64ToI64(F64Mul(as_(arg.value),
                                  U64ToF64(MultiplierOfConstructor(arg.ctor))))
        /\ (/\ arg.value.ty = "int"
            /\ Lt(Mul(arg.value.mag, MultiplierOfConstructor(arg.ctor)), Shl(<<1>>, 53))) =>
               Made = I64(arg.value.neg,
                          Mul(arg.value.mag, MultiplierOfConstructor(arg.ctor)))
        /\ (arg.ctor = "from_kibibytes"
            /\ arg.value = FloatNum(DecToF64(FALSE, <<25>>, 0 - 1))) =>
               Made = Int64(2560)
        /\ (arg.ctor = "from_kilobytes" /\ arg.value = Num(42)) => Made = Int64(42000)
        /\ (arg.ctor = "from_mebibytes" /\ arg.value = Num(4)) => Made = Int64(4194304)

C14_Witness ==
    /\ op = "new" /\ arg.ctor = "from_kibibytes"
    /\ arg.value = FloatNum(DecToF64(FALSE, <<25>>, 0 - 1))
    /\ rhs = NoSize /\ lhs = Int64(2560)

\* x < y for two byte counts taken as integers: x - y is below zero
IntLess(x, y) == IntAdd(x, NegI64(y)).neg

\* the ordering of two byte counts taken as integers
IntOrdering(x, y) ==
    IF IntLess(x, y) THEN "Less" ELSE IF IntLess(y, x) THEN "Greater" ELSE "Equal"

\* C15: two Sizes are equal exactly when their byte counts are equal, and
\* ordered as their byte counts are, whatever constructors and argument
\* types made them: from_mebibytes(n) == from_kibibytes(1024 * n),
\* from_mib(2_u8) == from_mib(2_f64), from_kb(7) < from_kib(7).
C15_ComparedByBytes ==
    /\ op = "eq" =>
        /\ ret = Returned("bool", IntOrdering(lhs, rhs) = "Equal")
        /\ \A n \in 0..MaxInt :
              (lhs = from_mebibytes(Num(n)) /\ rhs = from_kibibytes(Num(1024 * n))) =>
                  ret.v = TRUE
        /\ (/\ lhs = from_mebibytes(Num(2))
            /\ rhs = from_mebibytes(FloatNum(DecToF64(FALSE, <<2>>, 0)))) => ret.v = TRUE
        /\ (lhs = from_kilobytes(Num(7)) /\ rhs = from_kibibytes(Num(7))) => ret.v = FALSE
    /\ op = "partial_cmp" =>
        /\ ret = Returned("Ordering", IntOrdering(lhs, rhs))
        /\ (lhs = from_kilobytes(Num(7)) /\ rhs = from_kibibytes(Num(7))) => ret.v = "Less"

C15_Witness ==
    op = "partial_cmp" /\ lhs = Int64(7000) /\ rhs = Int64(7168) /\ ret.v = "Less"

\* C16: the sum and the difference of two Sizes are Sizes of exactly
\* a.bytes() + b.bytes() and a.bytes() - b.bytes() bytes, negative results
\* included; stated here for the sums and differences an i64 holds.
C16_ExactSumAndDifference ==
    /\ (op = "add" /\ IsI64(IntAdd(lhs, rhs))) =>
           ret = Returned("Size", IntAdd(lhs, rhs))
    /\ (op = "sub" /\ IsI64(IntAdd(lhs, NegI64(rhs)))) =>
           ret = Returned("Size", IntAdd(lhs, NegI64(rhs)))

\* C17: scalar multiplication is commutative.  s * n has the byte count
\* that n * s has for an i64 n, and s * x the byte count that x * s has for
\* an f64 x; stated here for the integer products an i64 holds, where n * s
\* neither panics nor wraps.
C17_Commutative ==
    /\ (/\ op \in {"mul", "i64_mul"} /\ arg.value.ty = "int"
        /\ IsI64(IntMul(arg.value, lhs))) =>
           \A checks \in Checks :
               /\ ret = Returned("Size", Mul_mul(lhs, arg.value))
               /\ ret = Mul_i64_mul(arg.value, lhs, checks)
    /\ (op \in {"mul", "f64_mul"} /\ arg.value.ty = "f64") =>
           /\ ret = Returned("Size", Mul_mul(lhs, arg.value))
           /\ ret = Returned("Size", Mul_f64_mul(arg.value, lhs))

\* the multiplier a constructor call applies: Size::Bytes applies none
MultiplierOfCall(ctor) ==
    IF ctor = "Bytes" THEN <<1>> ELSE MultiplierOfConstructor(ctor)

\* an integer or a finite f64 whose byte count is outside i64
OutOfRange(value, m) ==
    /\ value.ty = "f64" => value.f.k = "fin"
    /\ ~Moderate(value) \/ ~IsI64(TruncatedProduct(value, m))

Negative(value) == IF value.ty = "f64" THEN value.f.neg ELSE value.neg

\* C20: a unit constructor or Size::Bytes given a value whose byte count is
\* outside i64 saturates.  Above the range (u64::MAX, f64::MAX, +infinity)
\* the Size is i64::MAX bytes, below it (f64::MIN, -infinity) i64::MIN
\* bytes, and NaN gives 0 bytes.
C20_Saturates ==
    (op = "new" /\ arg.ctor \in UnitConstructors \cup {"Bytes"}) =>
        /\ (arg.value.ty = "f64" /\ arg.value.f.k = "inf") =>
               Made = (IF arg.value.f.neg THEN I64_MIN ELSE I64_MAX)
        /\ (arg.value.ty = "f64" /\ arg.value.f.k = "nan") => Made = Int64(0)
        /\ OutOfRange(arg.value, MultiplierOfCall(arg.ctor)) =>
               Made = (IF Negative(arg.value) THEN I64_MIN ELSE I64_MAX)
        /\ arg.value \in {IntNum(FALSE, U64_MAX), FloatNum(F64_MAX)} => Made = I64_MAX
        /\ arg.value = FloatNum(F64_MIN) => Made = I64_MIN

C20_Witness ==
    /\ op = "new" /\ arg.ctor = "Bytes" /\ arg.value = IntNum(FALSE, U64_MAX)
    /\ rhs = NoSize /\ lhs = I64_MAX

(***************************************************************************)
(* Properties of deserialization, checked under SpecSerde.                 *)
(***************************************************************************)
\* a finite f64 at or above 2^63, or below -2^63
OutsideI64(x) ==
    /\ x.k = "fin" /\ x.m # <<>>
    /\ \/ BitLen(x.m) + x.e > 64
       \/ BitLen(x.m) + x.e = 64 /\ ~(x.neg /\ x = Pow2F(TRUE, 63))

\* C21: deserialization fails with an "out of range" error for every
\* unsigned value above i64::MAX and for every float outside the range of
\* i64; every other integer or float gives Ok with the input truncated
\* toward zero.  (NaN, which is neither, is left open.)
C21_RangeChecked ==
    op = "deserialize" =>
        /\ arg.ctor = "visit_i64" =>
               ret.kind = "Ok" /\ ret.v = I64(arg.value.neg, arg.value.mag)
        /\ arg.ctor = "visit_u64" =>
               IF Lt(I64_MAX_MAG, arg.value.mag)
               THEN ret.kind = "Err" /\ ret.v = "out of range"
               ELSE ret.kind = "Ok" /\ ret.v = I64(FALSE, arg.value.mag)
        /\ (arg.ctor \in {"visit_f32", "visit_f64"} /\ arg.value.f.k # "nan") =>
               IF arg.value.f.k = "inf" \/ OutsideI64(arg.value.f)
               THEN ret.kind = "Err" /\ ret.v = "out of range"
               ELSE ret.kind = "Ok" /\ ret.v = TruncatedProduct(arg.value, <<1>>)

\* C22: a Size deserializes from a string as Size::from_str parses it, to
\* the Size that the number of bytes deserializes to.
C22_FromString ==
    (op = "deserialize" /\ arg.ctor = "visit_str"
        /\ FromStr_from_str(input).kind = "Ok") =>
        ret.kind = "Ok" /\ ret.v = FromStr_from_str(input).bytes

(***************************************************************************)
(* Properties of no_std construction, checked under SpecNoStd.             *)
(***************************************************************************)
\* C27: in no_std mode Size::Bytes(v) of a u64 v above i64::MAX is
\* Size::from_bytes(i64::MAX), not a negative Size, and Size::Bytes(v) of
\* any other u64 is Size::from_bytes(v).
C27_Clamped ==
    (op = "new" /\ arg.ctor = "Bytes") =>
        /\ ~lhs.neg
        /\ IF Lt(I64_MAX_MAG, arg.value.mag)
           THEN PartialEq_eq(lhs, from_bytes(I64_MAX))
           ELSE PartialEq_eq(lhs, from_bytes(I64(FALSE, arg.value.mag)))

C27_Witness ==
    /\ op = "new" /\ arg.ctor = "Bytes" /\ arg.value = IntNum(FALSE, U64_MAX)
    /\ lhs = I64_MAX

(***************************************************************************)
(* Properties of the parser, checked under SpecParse.  They are stated on  *)
(* the input itself: its split by characters, the number its literal       *)
(* writes, and the multiplier of its unit.                                 *)
(***************************************************************************)
\* the trimmed input split after its last character that is not an ASCII
\* letter; without such a character all of it is the numeric literal
Split(t) ==
    LET nl == {i \in 1..Len(t) : Ch(t, i) \notin LETTERS}
    IN  IF nl = {} THEN [num |-> t, unit |-> ""]
        ELSE [num  |-> trim_end(SubSeq(t, 1, SetMax(nl))),
              unit |-> SubSeq(t, SetMax(nl) + 1, Len(t))]

InputSplit == Split(trim(input))

\* a unit text without one trailing "s", if it has any
Singular(u) == IF EndsWith(u, "s") THEN SubSeq(u, 1, Len(u) - 1) ELSE u

\* a recognized spelling, or one followed by a single "s", in any case
Recognized(u) ==
    \/ to_lowercase(u) \in Spellings \cup {""}
    \/ Singular(to_lowercase(u)) \in Spellings \cup {""}

\* the multiplier of a recognized unit: 1000^k or 1024^k
MultiplierOf(u) ==
    LET r == IF to_lowercase(u) \in Spellings \cup {""} THEN to_lowercase(u)
             ELSE Singular(to_lowercase(u))
        c == Ch(r, 1)
        k == CASE c = "k" -> 1 [] c = "m" -> 2 [] c = "g" -> 3
               [] c = "t" -> 4 [] c = "p" -> 5 [] c = "e" -> 6
    IN  IF r \in {"", "b", "byte"} THEN <<1>>
        ELSE IF (Len(r) = 3 /\ Ch(r, 2) = "i") \/ (Len(r) > 3 /\ SubSeq(r, 3, 4) = "bi")
        THEN PowS(1024, k)
        ELSE PowS(1000, k)

\* the decimal number a numeric literal writes: (-1)^neg * m * 10^x
Literal(num) ==
    IF Len(num) = 0 THEN [ok |-> FALSE, neg |-> FALSE, m |-> <<>>, x |-> 0]
    ELSE LET signed == Ch(num, 1) \in {"+", "-"}
             n == parse_number(IF signed THEN SubSeq(num, 2, Len(num)) ELSE num)
         IN  [ok |-> (~signed \/ Len(num) > 1) /\ n.ok,
              neg |-> Ch(num, 1) = "-", m |-> n.m, x |-> n.x]

\* m * 10^x * k without its fraction
Truncated(m, x, k) ==
    IF x >= 0 THEN Mul(Mul(m, PowS(10, x)), k)
    ELSE DivMod(Mul(m, k), PowS(10, 0 - x)).q

\* every character of s is one byte long
is_ascii(s) == \A i \in 1..Len(s) : len_utf8(Ch(s, i)) = 1

\* C2 as stated: from_str never panics, it returns Ok or Err for every
\* string, strings with characters outside ASCII included.
C2_NeverPanics == parsed.kind \in {"none", "Ok", "Err"}

\* C3 as stated: when the numeric literal of the input does not parse as a
\* floating-point number, or its unit is not a recognized one, from_str
\* returns Err(ParseSizeError), the same value for both causes.
C3_ErrOnBadInput ==
    (/\ parsed.kind # "none"
     /\ ~parse_f64(InputSplit.num).ok \/ ~Recognized(InputSplit.unit)) =>
        (parsed.kind = "Err" /\ parsed.bytes = "ParseSizeError")

C5_Split ==
    parsed.kind # "none" =>
        /\ parsed.kind # "Panic"
        /\ parsed.num_str = InputSplit.num
        /\ parsed.unit = InputSplit.unit
        /\ input = "423E-3mb" => (parsed.num_str = "423E-3" /\ parsed.unit = "mb")
        /\ input = "0.423E3" => (parsed.num_str = "0.423E3" /\ parsed.unit = "")

\* C6 as stated: only a recognized spelling, or one followed by a single
\* "s", is accepted as the unit.
C6_SinglePlural ==
    parsed.kind = "Ok" => Recognized(InputSplit.unit)

\* C29: parsing returns Ok only for inputs whose numeric literal has at
\* least one decimal digit.  The empty string, a string of whitespace and
\* every input of ASCII letters only (a bare unit such as "kb", or "inf",
\* "infinity", "nan") end in Err(ParseSizeError).
C29_DigitsRequired ==
    parsed.kind # "none" =>
        /\ parsed.kind = "Ok" =>
               \E i \in 1..Len(InputSplit.num) : Ch(InputSplit.num, i) \in Chars(DIGITS)
        /\ (trim(input) = "" \/ \A i \in 1..Len(input) : Ch(input, i) \in LETTERS) =>
               parsed.kind = "Err"

\* no two units share a spelling of Unit::text after lowercasing
SpellingsDistinct ==
    \A u \in Unit, v \in Unit, i \in 1..4, j \in 1..4 :
        to_lowercase(Unit_text(u)[i]) = to_lowercase(Unit_text(v)[j]) => u = v

\* "<n> <spelling>" for every spelling of the catalog, alone or with "s",
\* with the product of n and the multiplier of the unit it is a spelling of
CatalogCases ==
    {[text  |-> l \o " " \o Unit_text(u)[j] \o p,
      bytes |-> F64ToI64(F64Mul(DecToF64(FALSE, Literal(l).m, Literal(l).x),
                                U64ToF64(MultiplierOfUnit(u))))] :
        l \in {"1", "12.34"}, u \in Unit, j \in 1..4, p \in {"", "s"}}

\* C30: the unit catalog and the parser agree.  For each of the 13 units
\* and each of the four spellings of Unit::text, alone or with a plural
\* "s", the parser accepts "<n> <spelling>" and multiplies by that unit's
\* multiplier; no two units share a spelling after lowercasing.
C30_CatalogParsed ==
    /\ SpellingsDistinct
    /\ parsed.kind # "none" =>
          \A c \in CatalogCases :
              input = c.text => parsed.kind = "Ok" /\ parsed.bytes = c.bytes

C30_Witness ==
    /\ input = "1 Pebibytes" /\ parsed.kind = "Ok"
    /\ parsed.bytes = I64(FALSE, Shl(<<1>>, 50))

====
